---- MODULE Spec2Model ----
(***************************************************************************)
(* Model of the tutorial notebooks of lsst/tutorial-notebooks.             *)
(*                                                                         *)
(* Every notebook is a linear script of code cells.  A kernel executes the *)
(* top-level statements of the code cells in order ("Run All"); a raise    *)
(* that is not caught stops the run.  The statements of each notebook are  *)
(* tabulated below (one record per top-level statement, with the line of   *)
(* the notebook file where it starts); the actions give the statements     *)
(* their effect on the kernel namespace, the TAP service, the local disk   *)
(* and the image objects.                                                  *)
(***************************************************************************)
EXTENDS Integers, Sequences, FiniteSets, TLC

(***************************************************************************)
(* Bounds of the model.                                                    *)
(***************************************************************************)
\* number of pixels of a modelled image
NPix == 2

(***************************************************************************)
(* The statements of the notebooks.                                        *)
(*   ln   first line of the statement in the notebook file                 *)
(*   cell number of the code cell (in file order)                          *)
(*   k    kind of the statement (selects the action that executes it)      *)
(*   call TRUE when the statement contains a call (and so can raise)       *)
(*   a    the object the statement works on, for the kinds that need it    *)
(*   w    names the statement binds, d names it deletes, r names it reads  *)
(*        before binding them itself                                       *)
(***************************************************************************)
NbAnomaly ==
  <<
    [ln |-> 95, cell |-> 1, k |-> "import", call |-> FALSE, a |-> "", w |-> {}, d |-> {}, r |-> {}],
    [ln |-> 96, cell |-> 1, k |-> "import", call |-> FALSE, a |-> "", w |-> {}, d |-> {}, r |-> {}],
    [ln |-> 97, cell |-> 1, k |-> "import", call |-> FALSE, a |-> "", w |-> {}, d |-> {}, r |-> {}],
    [ln |-> 98, cell |-> 1, k |-> "import", call |-> FALSE, a |-> "", w |-> {}, d |-> {}, r |-> {}],
    [ln |-> 114, cell |-> 2, k |-> "import", call |-> FALSE, a |-> "", w |-> {}, d |-> {}, r |-> {}],
    [ln |-> 115, cell |-> 2, k |-> "import", call |-> FALSE, a |-> "", w |-> {}, d |-> {}, r |-> {}],
    [ln |-> 117, cell |-> 2, k |-> "import", call |-> FALSE, a |-> "", w |-> {}, d |-> {}, r |-> {}],
    [ln |-> 118, cell |-> 2, k |-> "import", call |-> FALSE, a |-> "", w |-> {}, d |-> {}, r |-> {}],
    [ln |-> 119, cell |-> 2, k |-> "stmt", call |-> TRUE, a |-> "", w |-> {}, d |-> {}, r |-> {}],
    [ln |-> 121, cell |-> 2, k |-> "import", call |-> FALSE, a |-> "", w |-> {}, d |-> {}, r |-> {}],
    [ln |-> 137, cell |-> 3, k |-> "stmt", call |-> TRUE, a |-> "", w |-> {}, d |-> {}, r |-> {}],
    [ln |-> 139, cell |-> 3, k |-> "stmt", call |-> FALSE, a |-> "", w |-> {"plot_filter_labels"}, d |-> {}, r |-> {}],
    [ln |-> 140, cell |-> 3, k |-> "stmt", call |-> FALSE, a |-> "", w |-> {"plot_filter_colors"}, d |-> {}, r |-> {}],
    [ln |-> 142, cell |-> 3, k |-> "stmt", call |-> FALSE, a |-> "", w |-> {"plot_filter_symbols"}, d |-> {}, r |-> {}],
    [ln |-> 167, cell |-> 4, k |-> "get_tap", call |-> TRUE, a |-> "", w |-> {"service"}, d |-> {}, r |-> {}],
    [ln |-> 168, cell |-> 4, k |-> "assert_service", call |-> FALSE, a |-> "", w |-> {}, d |-> {}, r |-> {"service"}],
    [ln |-> 184, cell |-> 5, k |-> "stmt", call |-> FALSE, a |-> "", w |-> {"ndiasources_min"}, d |-> {}, r |-> {}],
    [ln |-> 202, cell |-> 6, k |-> "stmt", call |-> FALSE, a |-> "", w |-> {"ndata_thresh"}, d |-> {}, r |-> {}],
    [ln |-> 228, cell |-> 7, k |-> "search", call |-> TRUE, a |-> "", w |-> {"results"}, d |-> {},
     r |-> {"service", "ndiasources_min", "ndata_thresh"}],
    [ln |-> 237, cell |-> 7, k |-> "stmt", call |-> TRUE, a |-> "", w |-> {"DiaObjs"}, d |-> {}, r |-> {"results"}],
    [ln |-> 238, cell |-> 7, k |-> "stmt", call |-> TRUE, a |-> "", w |-> {"df"}, d |-> {}, r |-> {"DiaObjs"}],
    [ln |-> 239, cell |-> 7, k |-> "del", call |-> FALSE, a |-> "", w |-> {}, d |-> {"results"}, r |-> {}],
    [ln |-> 259, cell |-> 8, k |-> "stmt", call |-> FALSE, a |-> "", w |-> {"sample"}, d |-> {}, r |-> {"df"}],
    [ln |-> 265, cell |-> 8, k |-> "stmt", call |-> TRUE, a |-> "", w |-> {"rng"}, d |-> {}, r |-> {}],
    [ln |-> 267, cell |-> 8, k |-> "stmt", call |-> TRUE, a |-> "", w |-> {"ifo"}, d |-> {}, r |-> {"rng"}],
    [ln |-> 269, cell |-> 8, k |-> "stmt", call |-> TRUE, a |-> "", w |-> {}, d |-> {}, r |-> {"ifo", "sample"}],
    [ln |-> 270, cell |-> 8, k |-> "stmt", call |-> TRUE, a |-> "", w |-> {"idx"}, d |-> {}, r |-> {"ifo", "sample"}],
    [ln |-> 302, cell |-> 10, k |-> "stmt", call |-> TRUE, a |-> "", w |-> {}, d |-> {}, r |-> {}],
    [ln |-> 303, cell |-> 10, k |-> "stmt", call |-> TRUE, a |-> "", w |-> {}, d |-> {}, r |-> {"ifo", "sample"}],
    [ln |-> 304, cell |-> 10, k |-> "stmt", call |-> TRUE, a |-> "", w |-> {}, d |-> {}, r |-> {}],
    [ln |-> 305, cell |-> 10, k |-> "stmt", call |-> TRUE, a |-> "", w |-> {}, d |-> {}, r |-> {}],
    [ln |-> 306, cell |-> 10, k |-> "stmt", call |-> TRUE, a |-> "", w |-> {}, d |-> {}, r |-> {}],
    [ln |-> 307, cell |-> 10, k |-> "stmt", call |-> TRUE, a |-> "", w |-> {}, d |-> {}, r |-> {}],
    [ln |-> 350, cell |-> 12, k |-> "stmt", call |-> TRUE, a |-> "", w |-> {"fig", "ax"}, d |-> {}, r |-> {}],
    [ln |-> 352, cell |-> 12, k |-> "stmt", call |-> FALSE, a |-> "", w |-> {"params"}, d |-> {}, r |-> {}],
    [ln |-> 357, cell |-> 12, k |-> "stmt", call |-> TRUE, a |-> "", w |-> {"j", "px", "py", "i"}, d |-> {}, r |-> {"params", "ax", "df", "idx"}],
    [ln |-> 364, cell |-> 12, k |-> "stmt", call |-> TRUE, a |-> "", w |-> {}, d |-> {}, r |-> {}],
    [ln |-> 365, cell |-> 12, k |-> "stmt", call |-> TRUE, a |-> "", w |-> {}, d |-> {}, r |-> {}],
    [ln |-> 388, cell |-> 13, k |-> "stmt", call |-> TRUE, a |-> "", w |-> {"fig", "ax"}, d |-> {}, r |-> {}],
    [ln |-> 390, cell |-> 13, k |-> "set_n", call |-> FALSE, a |-> "", w |-> {"n"}, d |-> {}, r |-> {}],
    [ln |-> 391, cell |-> 13, k |-> "stmt", call |-> FALSE, a |-> "", w |-> {"filters"}, d |-> {}, r |-> {}],
    [ln |-> 393, cell |-> 13, k |-> "search_loop", call |-> TRUE, a |-> "", w |-> {"i", "j", "results", "f", "filt", "fx", "n"}, d |-> {"results"},
     r |-> {"service", "df", "idx", "n", "filters", "ax", "plot_filter_symbols", "plot_filter_colors"}],
    [ln |-> 417, cell |-> 13, k |-> "stmt", call |-> TRUE, a |-> "", w |-> {}, d |-> {}, r |-> {}],
    [ln |-> 418, cell |-> 13, k |-> "stmt", call |-> TRUE, a |-> "", w |-> {}, d |-> {}, r |-> {}],
    [ln |-> 448, cell |-> 14, k |-> "stmt", call |-> TRUE, a |-> "", w |-> {"butler"}, d |-> {}, r |-> {}],
    [ln |-> 464, cell |-> 15, k |-> "def", call |-> FALSE, a |-> "", w |-> {"cutout_im"}, d |-> {}, r |-> {}],
    [ln |-> 485, cell |-> 15, k |-> "stmt", call |-> FALSE, a |-> "", w |-> {"diff"}, d |-> {}, r |-> {}],
    [ln |-> 486, cell |-> 15, k |-> "stmt", call |-> FALSE, a |-> "", w |-> {"difftemp"}, d |-> {}, r |-> {}],
    [ln |-> 487, cell |-> 15, k |-> "stmt", call |-> FALSE, a |-> "", w |-> {"calexp"}, d |-> {}, r |-> {}],
    [ln |-> 503, cell |-> 16, k |-> "stmt", call |-> FALSE, a |-> "", w |-> {"anom_ind"}, d |-> {}, r |-> {}],
    [ln |-> 504, cell |-> 16, k |-> "stmt", call |-> FALSE, a |-> "", w |-> {"DiaObjID"}, d |-> {}, r |-> {"df", "idx", "anom_ind"}],
    [ln |-> 506, cell |-> 16, k |-> "search", call |-> TRUE, a |-> "", w |-> {"results"}, d |-> {}, r |-> {"service", "DiaObjID"}],
    [ln |-> 513, cell |-> 16, k |-> "stmt", call |-> TRUE, a |-> "", w |-> {"diasrc"}, d |-> {}, r |-> {"results"}],
    [ln |-> 515, cell |-> 16, k |-> "stmt", call |-> TRUE, a |-> "", w |-> {}, d |-> {}, r |-> {"diasrc"}],
    [ln |-> 516, cell |-> 16, k |-> "del", call |-> FALSE, a |-> "", w |-> {}, d |-> {"results"}, r |-> {}],
    [ln |-> 532, cell |-> 17, k |-> "stmt", call |-> FALSE, a |-> "", w |-> {"ind_mm"}, d |-> {}, r |-> {}],
    [ln |-> 533, cell |-> 17, k |-> "stmt", call |-> FALSE, a |-> "", w |-> {"filt_cond"}, d |-> {}, r |-> {"diasrc"}],
    [ln |-> 534, cell |-> 17, k |-> "stmt", call |-> TRUE, a |-> "", w |-> {}, d |-> {}, r |-> {"diasrc", "filt_cond", "ind_mm"}],
    [ln |-> 536, cell |-> 17, k |-> "stmt", call |-> TRUE, a |-> "", w |-> {}, d |-> {}, r |-> {"diasrc", "filt_cond", "ind_mm"}],
    [ln |-> 553, cell |-> 18, k |-> "stmt", call |-> TRUE, a |-> "", w |-> {}, d |-> {}, r |-> {}],
    [ln |-> 555, cell |-> 18, k |-> "stmt", call |-> FALSE, a |-> "", w |-> {"filters"}, d |-> {}, r |-> {}],
    [ln |-> 556, cell |-> 18, k |-> "stmt", call |-> FALSE, a |-> "", w |-> {"mjds"}, d |-> {}, r |-> {"diasrc", "anom_ind"}],
    [ln |-> 558, cell |-> 18, k |-> "search", call |-> TRUE, a |-> "", w |-> {"results"}, d |-> {}, r |-> {"service", "df", "idx", "anom_ind"}],
    [ln |-> 562, cell |-> 18, k |-> "stmt", call |-> TRUE, a |-> "", w |-> {"results"}, d |-> {}, r |-> {"results"}],
    [ln |-> 564, cell |-> 18, k |-> "stmt", call |-> TRUE, a |-> "", w |-> {"f", "filt", "fx"}, d |-> {},
     r |-> {"filters", "results", "plot_filter_symbols", "plot_filter_colors"}],
    [ln |-> 569, cell |-> 18, k |-> "del", call |-> FALSE, a |-> "", w |-> {}, d |-> {"results"}, r |-> {}],
    [ln |-> 571, cell |-> 18, k |-> "stmt", call |-> TRUE, a |-> "", w |-> {"im_ind"}, d |-> {}, r |-> {"ind_mm", "diasrc", "filt_cond"}],
    [ln |-> 575, cell |-> 18, k |-> "stmt", call |-> TRUE, a |-> "", w |-> {}, d |-> {}, r |-> {"df", "idx", "anom_ind"}],
    [ln |-> 576, cell |-> 18, k |-> "stmt", call |-> TRUE, a |-> "", w |-> {}, d |-> {}, r |-> {}],
    [ln |-> 577, cell |-> 18, k |-> "stmt", call |-> TRUE, a |-> "", w |-> {}, d |-> {}, r |-> {}],
    [ln |-> 579, cell |-> 18, k |-> "stmt", call |-> TRUE, a |-> "", w |-> {}, d |-> {}, r |-> {}],
    [ln |-> 580, cell |-> 18, k |-> "stmt", call |-> TRUE, a |-> "", w |-> {}, d |-> {}, r |-> {}],
    [ln |-> 607, cell |-> 19, k |-> "stmt", call |-> TRUE, a |-> "", w |-> {"im_ind", "ind", "cutoutsize", "ra", "dec", "ccdvisitid", "mag", "flux", "visit", "detector", "mjd", "filt", "cutout_diff", "cutout_ref", "cutout_calexp", "fig", "axs", "triplet", "titles", "i", "ax", "im_arr", "_", "im_arr_med", "im_arr_std", "minstd", "maxstd", "circle", "norm"}, d |-> {},
     r |-> {"ind_mm", "diasrc", "DiaObjID", "cutout_im", "butler", "diff", "difftemp", "calexp"}],
    [ln |-> 697, cell |-> 20, k |-> "stmt", call |-> FALSE, a |-> "", w |-> {"ra"}, d |-> {}, r |-> {"df", "idx", "anom_ind"}],
    [ln |-> 698, cell |-> 20, k |-> "stmt", call |-> FALSE, a |-> "", w |-> {"dec"}, d |-> {}, r |-> {"df", "idx", "anom_ind"}],
    [ln |-> 700, cell |-> 20, k |-> "search", call |-> TRUE, a |-> "", w |-> {"results"}, d |-> {}, r |-> {"service", "ra", "dec"}],
    [ln |-> 706, cell |-> 20, k |-> "stmt", call |-> TRUE, a |-> "", w |-> {"SrcTruth"}, d |-> {}, r |-> {"results"}],
    [ln |-> 707, cell |-> 20, k |-> "stmt", call |-> FALSE, a |-> "", w |-> {}, d |-> {}, r |-> {"SrcTruth"}]
  >>

NbIntro ==
  <<
    [ln |-> 121, cell |-> 1, k |-> "stmt", call |-> TRUE, a |-> "", w |-> {}, d |-> {}, r |-> {}],
    [ln |-> 232, cell |-> 3, k |-> "import", call |-> FALSE, a |-> "", w |-> {}, d |-> {}, r |-> {}],
    [ln |-> 233, cell |-> 3, k |-> "import", call |-> FALSE, a |-> "", w |-> {}, d |-> {}, r |-> {}],
    [ln |-> 234, cell |-> 3, k |-> "import", call |-> FALSE, a |-> "", w |-> {}, d |-> {}, r |-> {}],
    [ln |-> 235, cell |-> 3, k |-> "import", call |-> FALSE, a |-> "", w |-> {}, d |-> {}, r |-> {}],
    [ln |-> 236, cell |-> 3, k |-> "import", call |-> FALSE, a |-> "", w |-> {}, d |-> {}, r |-> {}],
    [ln |-> 237, cell |-> 3, k |-> "import", call |-> FALSE, a |-> "", w |-> {}, d |-> {}, r |-> {}],
    [ln |-> 238, cell |-> 3, k |-> "import", call |-> FALSE, a |-> "", w |-> {}, d |-> {}, r |-> {}],
    [ln |-> 239, cell |-> 3, k |-> "import", call |-> FALSE, a |-> "", w |-> {}, d |-> {}, r |-> {}],
    [ln |-> 261, cell |-> 4, k |-> "stmt", call |-> TRUE, a |-> "", w |-> {}, d |-> {}, r |-> {}],
    [ln |-> 262, cell |-> 4, k |-> "stmt", call |-> TRUE, a |-> "", w |-> {}, d |-> {}, r |-> {}],
    [ln |-> 341, cell |-> 7, k |-> "get_tap", call |-> TRUE, a |-> "", w |-> {"service"}, d |-> {}, r |-> {}],
    [ln |-> 552, cell |-> 13, k |-> "stmt", call |-> FALSE, a |-> "", w |-> {"use_center_coords"}, d |-> {}, r |-> {}],
    [ln |-> 574, cell |-> 14, k |-> "stmt", call |-> FALSE, a |-> "", w |-> {"my_adql_query"}, d |-> {}, r |-> {"use_center_coords"}],
    [ln |-> 581, cell |-> 14, k |-> "search", call |-> TRUE, a |-> "", w |-> {"results"}, d |-> {}, r |-> {"service", "my_adql_query"}],
    [ln |-> 582, cell |-> 14, k |-> "stmt", call |-> TRUE, a |-> "", w |-> {"results_table"}, d |-> {}, r |-> {"results"}],
    [ln |-> 594, cell |-> 15, k |-> "stmt", call |-> TRUE, a |-> "", w |-> {}, d |-> {}, r |-> {"results_table"}],
    [ln |-> 595, cell |-> 15, k |-> "stmt", call |-> TRUE, a |-> "", w |-> {}, d |-> {}, r |-> {"results_table"}],
    [ln |-> 607, cell |-> 16, k |-> "stmt", call |-> FALSE, a |-> "", w |-> {}, d |-> {}, r |-> {"results_table"}],
    [ln |-> 631, cell |-> 17, k |-> "search", call |-> TRUE, a |-> "", w |-> {"results"}, d |-> {}, r |-> {"service", "use_center_coords"}],
    [ln |-> 648, cell |-> 17, k |-> "stmt", call |-> TRUE, a |-> "", w |-> {"results_table"}, d |-> {}, r |-> {"results"}],
    [ln |-> 649, cell |-> 17, k |-> "stmt", call |-> TRUE, a |-> "", w |-> {}, d |-> {}, r |-> {"results_table"}],
    [ln |-> 669, cell |-> 18, k |-> "stmt", call |-> FALSE, a |-> "", w |-> {}, d |-> {}, r |-> {"results_table"}],
    [ln |-> 689, cell |-> 19, k |-> "stmt", call |-> TRUE, a |-> "", w |-> {"data"}, d |-> {}, r |-> {"results_table"}],
    [ln |-> 755, cell |-> 23, k |-> "stmt", call |-> TRUE, a |-> "", w |-> {}, d |-> {}, r |-> {"data"}],
    [ln |-> 758, cell |-> 23, k |-> "stmt", call |-> TRUE, a |-> "", w |-> {}, d |-> {}, r |-> {}],
    [ln |-> 759, cell |-> 23, k |-> "stmt", call |-> TRUE, a |-> "", w |-> {}, d |-> {}, r |-> {}],
    [ln |-> 760, cell |-> 23, k |-> "stmt", call |-> TRUE, a |-> "", w |-> {}, d |-> {}, r |-> {}],
    [ln |-> 761, cell |-> 23, k |-> "stmt", call |-> TRUE, a |-> "", w |-> {}, d |-> {}, r |-> {}],
    [ln |-> 763, cell |-> 23, k |-> "stmt", call |-> TRUE, a |-> "", w |-> {}, d |-> {}, r |-> {}],
    [ln |-> 764, cell |-> 23, k |-> "stmt", call |-> TRUE, a |-> "", w |-> {}, d |-> {}, r |-> {}],
    [ln |-> 766, cell |-> 23, k |-> "stmt", call |-> TRUE, a |-> "", w |-> {}, d |-> {}, r |-> {}],
    [ln |-> 851, cell |-> 25, k |-> "stmt", call |-> TRUE, a |-> "", w |-> {"butler"}, d |-> {}, r |-> {}],
    [ln |-> 881, cell |-> 26, k |-> "stmt", call |-> FALSE, a |-> "", w |-> {"my_ra_deg"}, d |-> {}, r |-> {}],
    [ln |-> 882, cell |-> 26, k |-> "stmt", call |-> FALSE, a |-> "", w |-> {"my_dec_deg"}, d |-> {}, r |-> {}],
    [ln |-> 884, cell |-> 26, k |-> "stmt", call |-> TRUE, a |-> "", w |-> {"my_spherePoint"}, d |-> {}, r |-> {"my_ra_deg", "my_dec_deg"}],
    [ln |-> 886, cell |-> 26, k |-> "stmt", call |-> TRUE, a |-> "", w |-> {}, d |-> {}, r |-> {"my_spherePoint"}],
    [ln |-> 906, cell |-> 27, k |-> "butler_get", call |-> TRUE, a |-> "", w |-> {"skymap"}, d |-> {}, r |-> {"butler"}],
    [ln |-> 908, cell |-> 27, k |-> "stmt", call |-> TRUE, a |-> "", w |-> {"tract"}, d |-> {}, r |-> {"skymap", "my_spherePoint"}],
    [ln |-> 909, cell |-> 27, k |-> "stmt", call |-> TRUE, a |-> "", w |-> {"patch"}, d |-> {}, r |-> {"tract", "my_spherePoint"}],
    [ln |-> 911, cell |-> 27, k |-> "stmt", call |-> FALSE, a |-> "", w |-> {"my_tract"}, d |-> {}, r |-> {"tract"}],
    [ln |-> 912, cell |-> 27, k |-> "stmt", call |-> TRUE, a |-> "", w |-> {"my_patch"}, d |-> {}, r |-> {"patch"}],
    [ln |-> 914, cell |-> 27, k |-> "stmt", call |-> TRUE, a |-> "", w |-> {}, d |-> {}, r |-> {"my_tract"}],
    [ln |-> 915, cell |-> 27, k |-> "stmt", call |-> TRUE, a |-> "", w |-> {}, d |-> {}, r |-> {"my_patch"}],
    [ln |-> 935, cell |-> 28, k |-> "stmt", call |-> FALSE, a |-> "", w |-> {"dataId"}, d |-> {}, r |-> {"my_tract", "my_patch"}],
    [ln |-> 936, cell |-> 28, k |-> "butler_get", call |-> TRUE, a |-> "", w |-> {"my_deepCoadd"}, d |-> {}, r |-> {"butler", "dataId"}],
    [ln |-> 959, cell |-> 29, k |-> "stmt", call |-> TRUE, a |-> "", w |-> {}, d |-> {}, r |-> {}],
    [ln |-> 982, cell |-> 30, k |-> "stmt", call |-> TRUE, a |-> "", w |-> {"fig"}, d |-> {}, r |-> {}],
    [ln |-> 983, cell |-> 30, k |-> "stmt", call |-> TRUE, a |-> "", w |-> {"afw_display"}, d |-> {}, r |-> {}],
    [ln |-> 984, cell |-> 30, k |-> "stmt", call |-> TRUE, a |-> "", w |-> {}, d |-> {}, r |-> {"afw_display"}],
    [ln |-> 985, cell |-> 30, k |-> "stmt", call |-> TRUE, a |-> "", w |-> {}, d |-> {}, r |-> {"afw_display", "my_deepCoadd"}],
    [ln |-> 986, cell |-> 30, k |-> "stmt", call |-> TRUE, a |-> "", w |-> {}, d |-> {}, r |-> {}]
  >>

NbInject ==
  <<
    [ln |-> 118, cell |-> 1, k |-> "import", call |-> FALSE, a |-> "", w |-> {}, d |-> {}, r |-> {}],
    [ln |-> 119, cell |-> 1, k |-> "import", call |-> FALSE, a |-> "", w |-> {}, d |-> {}, r |-> {}],
    [ln |-> 120, cell |-> 1, k |-> "import", call |-> FALSE, a |-> "", w |-> {}, d |-> {}, r |-> {}],
    [ln |-> 121, cell |-> 1, k |-> "import", call |-> FALSE, a |-> "", w |-> {}, d |-> {}, r |-> {}],
    [ln |-> 122, cell |-> 1, k |-> "import", call |-> FALSE, a |-> "", w |-> {}, d |-> {}, r |-> {}],
    [ln |-> 123, cell |-> 1, k |-> "import", call |-> FALSE, a |-> "", w |-> {}, d |-> {}, r |-> {}],
    [ln |-> 124, cell |-> 1, k |-> "import", call |-> FALSE, a |-> "", w |-> {}, d |-> {}, r |-> {}],
    [ln |-> 125, cell |-> 1, k |-> "import", call |-> FALSE, a |-> "", w |-> {}, d |-> {}, r |-> {}],
    [ln |-> 127, cell |-> 1, k |-> "import", call |-> FALSE, a |-> "", w |-> {}, d |-> {}, r |-> {}],
    [ln |-> 128, cell |-> 1, k |-> "import", call |-> FALSE, a |-> "", w |-> {}, d |-> {}, r |-> {}],
    [ln |-> 129, cell |-> 1, k |-> "import", call |-> FALSE, a |-> "", w |-> {}, d |-> {}, r |-> {}],
    [ln |-> 130, cell |-> 1, k |-> "import", call |-> FALSE, a |-> "", w |-> {}, d |-> {}, r |-> {}],
    [ln |-> 131, cell |-> 1, k |-> "import", call |-> FALSE, a |-> "", w |-> {}, d |-> {}, r |-> {}],
    [ln |-> 132, cell |-> 1, k |-> "import", call |-> FALSE, a |-> "", w |-> {}, d |-> {}, r |-> {}],
    [ln |-> 133, cell |-> 1, k |-> "import", call |-> FALSE, a |-> "", w |-> {}, d |-> {}, r |-> {}],
    [ln |-> 134, cell |-> 1, k |-> "import", call |-> FALSE, a |-> "", w |-> {}, d |-> {}, r |-> {}],
    [ln |-> 135, cell |-> 1, k |-> "import", call |-> FALSE, a |-> "", w |-> {}, d |-> {}, r |-> {}],
    [ln |-> 155, cell |-> 2, k |-> "stmt", call |-> TRUE, a |-> "", w |-> {}, d |-> {}, r |-> {}],
    [ln |-> 156, cell |-> 2, k |-> "stmt", call |-> TRUE, a |-> "", w |-> {}, d |-> {}, r |-> {}],
    [ln |-> 174, cell |-> 3, k |-> "def", call |-> FALSE, a |-> "", w |-> {"rotate_exposure"}, d |-> {}, r |-> {}],
    [ln |-> 222, cell |-> 4, k |-> "stmt", call |-> FALSE, a |-> "", w |-> {"butler_config"}, d |-> {}, r |-> {}],
    [ln |-> 223, cell |-> 4, k |-> "stmt", call |-> FALSE, a |-> "", w |-> {"collections"}, d |-> {}, r |-> {}],
    [ln |-> 224, cell |-> 4, k |-> "stmt", call |-> TRUE, a |-> "", w |-> {"butler"}, d |-> {}, r |-> {"butler_config", "collections"}],
    [ln |-> 246, cell |-> 5, k |-> "stmt", call |-> FALSE, a |-> "", w |-> {"tract"}, d |-> {}, r |-> {}],
    [ln |-> 247, cell |-> 5, k |-> "stmt", call |-> FALSE, a |-> "", w |-> {"where"}, d |-> {}, r |-> {"tract"}],
    [ln |-> 249, cell |-> 5, k |-> "stmt", call |-> TRUE, a |-> "", w |-> {"calexp_g_DatasetRefs"}, d |-> {}, r |-> {"butler", "where"}],
    [ln |-> 250, cell |-> 5, k |-> "stmt", call |-> TRUE, a |-> "", w |-> {}, d |-> {}, r |-> {"calexp_g_DatasetRefs"}],
    [ln |-> 269, cell |-> 6, k |-> "stmt", call |-> FALSE, a |-> "", w |-> {"dataId_g"}, d |-> {}, r |-> {"calexp_g_DatasetRefs"}],
    [ln |-> 270, cell |-> 6, k |-> "stmt", call |-> TRUE, a |-> "", w |-> {}, d |-> {}, r |-> {"dataId_g"}],
    [ln |-> 288, cell |-> 7, k |-> "get_calexp", call |-> TRUE, a |-> "", w |-> {"calexp_g"}, d |-> {}, r |-> {"butler", "dataId_g"}],
    [ln |-> 310, cell |-> 8, k |-> "stmt", call |-> TRUE, a |-> "", w |-> {"wcs"}, d |-> {}, r |-> {"calexp_g"}],
    [ln |-> 311, cell |-> 8, k |-> "stmt", call |-> TRUE, a |-> "", w |-> {"bbox"}, d |-> {}, r |-> {"calexp_g"}],
    [ln |-> 312, cell |-> 8, k |-> "stmt", call |-> TRUE, a |-> "", w |-> {}, d |-> {}, r |-> {"bbox"}],
    [ln |-> 314, cell |-> 8, k |-> "stmt", call |-> TRUE, a |-> "", w |-> {"boxcen"}, d |-> {}, r |-> {"bbox"}],
    [ln |-> 315, cell |-> 8, k |-> "stmt", call |-> TRUE, a |-> "", w |-> {"cen"}, d |-> {}, r |-> {"wcs", "boxcen"}],
    [ln |-> 316, cell |-> 8, k |-> "stmt", call |-> TRUE, a |-> "", w |-> {"sc_cen"}, d |-> {}, r |-> {"cen"}],
    [ln |-> 318, cell |-> 8, k |-> "stmt", call |-> TRUE, a |-> "", w |-> {}, d |-> {}, r |-> {"sc_cen"}],
    [ln |-> 340, cell |-> 9, k |-> "stmt", call |-> TRUE, a |-> "", w |-> {"imsize"}, d |-> {}, r |-> {"bbox", "wcs"}],
    [ln |-> 341, cell |-> 9, k |-> "stmt", call |-> TRUE, a |-> "", w |-> {}, d |-> {}, r |-> {"imsize"}],
    [ln |-> 367, cell |-> 10, k |-> "stmt", call |-> FALSE, a |-> "", w |-> {"inject_size"}, d |-> {}, r |-> {}],
    [ln |-> 394, cell |-> 11, k |-> "gen_cat", call |-> TRUE, a |-> "Sersic", w |-> {"my_injection_catalog_galaxies"}, d |-> {},
     r |-> {"sc_cen", "inject_size"}],
    [ln |-> 425, cell |-> 12, k |-> "gen_cat", call |-> TRUE, a |-> "Star", w |-> {"my_injection_catalog_stars"}, d |-> {},
     r |-> {"sc_cen", "inject_size"}],
    [ln |-> 452, cell |-> 13, k |-> "vstack", call |-> TRUE, a |-> "", w |-> {"inject_cat"}, d |-> {},
     r |-> {"my_injection_catalog_galaxies", "my_injection_catalog_stars"}],
    [ln |-> 462, cell |-> 14, k |-> "stmt", call |-> FALSE, a |-> "", w |-> {}, d |-> {}, r |-> {"inject_cat"}],
    [ln |-> 484, cell |-> 15, k |-> "stmt", call |-> FALSE, a |-> "", w |-> {"stamp_path"}, d |-> {}, r |-> {}],
    [ln |-> 485, cell |-> 15, k |-> "stmt", call |-> TRUE, a |-> "", w |-> {"stamp_img_hdu"}, d |-> {}, r |-> {"stamp_path"}],
    [ln |-> 495, cell |-> 16, k |-> "stmt", call |-> TRUE, a |-> "", w |-> {"fig"}, d |-> {}, r |-> {}],
    [ln |-> 496, cell |-> 16, k |-> "stmt", call |-> TRUE, a |-> "", w |-> {}, d |-> {}, r |-> {}],
    [ln |-> 497, cell |-> 16, k |-> "stmt", call |-> TRUE, a |-> "", w |-> {"im"}, d |-> {}, r |-> {"stamp_img_hdu"}],
    [ln |-> 498, cell |-> 16, k |-> "stmt", call |-> TRUE, a |-> "", w |-> {}, d |-> {}, r |-> {}],
    [ln |-> 499, cell |-> 16, k |-> "stmt", call |-> TRUE, a |-> "", w |-> {}, d |-> {}, r |-> {}],
    [ln |-> 500, cell |-> 16, k |-> "stmt", call |-> TRUE, a |-> "", w |-> {}, d |-> {}, r |-> {}],
    [ln |-> 528, cell |-> 17, k |-> "table", call |-> TRUE, a |-> "my_injection_catalog_stamp", w |-> {"my_injection_catalog_stamp"}, d |-> {},
     r |-> {"stamp_path"}],
    [ln |-> 547, cell |-> 18, k |-> "vstack", call |-> TRUE, a |-> "", w |-> {"inject_cat"}, d |-> {},
     r |-> {"inject_cat", "my_injection_catalog_stamp"}],
    [ln |-> 557, cell |-> 19, k |-> "stmt", call |-> FALSE, a |-> "", w |-> {}, d |-> {}, r |-> {"inject_cat"}],
    [ln |-> 583, cell |-> 20, k |-> "read_fits", call |-> TRUE, a |-> "", w |-> {"stamp_img_orig"}, d |-> {}, r |-> {"stamp_path"}],
    [ln |-> 601, cell |-> 21, k |-> "stmt", call |-> FALSE, a |-> "", w |-> {"rotation_angle"}, d |-> {}, r |-> {}],
    [ln |-> 602, cell |-> 21, k |-> "rotate", call |-> TRUE, a |-> "", w |-> {"stamp_img_rotated"}, d |-> {},
     r |-> {"rotate_exposure", "stamp_img_orig", "rotation_angle"}],
    [ln |-> 620, cell |-> 22, k |-> "stmt", call |-> TRUE, a |-> "", w |-> {"fig", "ax"}, d |-> {}, r |-> {}],
    [ln |-> 622, cell |-> 22, k |-> "stmt", call |-> TRUE, a |-> "", w |-> {}, d |-> {}, r |-> {"ax"}],
    [ln |-> 623, cell |-> 22, k |-> "stmt", call |-> TRUE, a |-> "", w |-> {"display0"}, d |-> {}, r |-> {"fig"}],
    [ln |-> 624, cell |-> 22, k |-> "stmt", call |-> TRUE, a |-> "", w |-> {}, d |-> {}, r |-> {"display0"}],
    [ln |-> 625, cell |-> 22, k |-> "display", call |-> TRUE, a |-> "stamp_img_orig", w |-> {}, d |-> {}, r |-> {"display0", "stamp_img_orig"}],
    [ln |-> 626, cell |-> 22, k |-> "stmt", call |-> TRUE, a |-> "", w |-> {}, d |-> {}, r |-> {}],
    [ln |-> 628, cell |-> 22, k |-> "stmt", call |-> TRUE, a |-> "", w |-> {}, d |-> {}, r |-> {"ax"}],
    [ln |-> 629, cell |-> 22, k |-> "stmt", call |-> TRUE, a |-> "", w |-> {"display1"}, d |-> {}, r |-> {"fig"}],
    [ln |-> 630, cell |-> 22, k |-> "stmt", call |-> TRUE, a |-> "", w |-> {}, d |-> {}, r |-> {"display1"}],
    [ln |-> 631, cell |-> 22, k |-> "display", call |-> TRUE, a |-> "stamp_img_rotated", w |-> {}, d |-> {}, r |-> {"display1", "stamp_img_rotated"}],
    [ln |-> 632, cell |-> 22, k |-> "stmt", call |-> TRUE, a |-> "", w |-> {}, d |-> {}, r |-> {}],
    [ln |-> 634, cell |-> 22, k |-> "stmt", call |-> TRUE, a |-> "", w |-> {}, d |-> {}, r |-> {}],
    [ln |-> 635, cell |-> 22, k |-> "stmt", call |-> TRUE, a |-> "", w |-> {}, d |-> {}, r |-> {}],
    [ln |-> 662, cell |-> 23, k |-> "nan_replace", call |-> TRUE, a |-> "", w |-> {}, d |-> {}, r |-> {"stamp_img_rotated"}],
    [ln |-> 680, cell |-> 24, k |-> "stmt", call |-> TRUE, a |-> "", w |-> {"home_directory"}, d |-> {}, r |-> {}],
    [ln |-> 681, cell |-> 24, k |-> "write_fits", call |-> TRUE, a |-> "", w |-> {}, d |-> {}, r |-> {"stamp_img_rotated", "home_directory"}],
    [ln |-> 699, cell |-> 25, k |-> "table", call |-> TRUE, a |-> "my_injection_catalog_rotated_stamp", w |-> {"my_injection_catalog_rotated_stamp"}, d |-> {},
     r |-> {"home_directory"}],
    [ln |-> 718, cell |-> 26, k |-> "vstack", call |-> TRUE, a |-> "", w |-> {"inject_cat"}, d |-> {},
     r |-> {"inject_cat", "my_injection_catalog_rotated_stamp"}],
    [ln |-> 744, cell |-> 27, k |-> "stmt", call |-> TRUE, a |-> "", w |-> {"psf"}, d |-> {}, r |-> {"calexp_g"}],
    [ln |-> 745, cell |-> 27, k |-> "stmt", call |-> TRUE, a |-> "", w |-> {"photo_calib"}, d |-> {}, r |-> {"calexp_g"}],
    [ln |-> 746, cell |-> 27, k |-> "stmt", call |-> TRUE, a |-> "", w |-> {"wcs"}, d |-> {}, r |-> {"calexp_g"}],
    [ln |-> 776, cell |-> 28, k |-> "stmt", call |-> TRUE, a |-> "", w |-> {"inject_config"}, d |-> {}, r |-> {}],
    [ln |-> 778, cell |-> 28, k |-> "stmt", call |-> TRUE, a |-> "", w |-> {"inject_task"}, d |-> {}, r |-> {"inject_config"}],
    [ln |-> 820, cell |-> 29, k |-> "inject", call |-> TRUE, a |-> "", w |-> {"injected_output"}, d |-> {},
     r |-> {"inject_task", "inject_cat", "calexp_g", "psf", "photo_calib", "wcs"}],
    [ln |-> 827, cell |-> 29, k |-> "unpack", call |-> FALSE, a |-> "injected_output", w |-> {"injected_exposure"}, d |-> {},
     r |-> {"injected_output"}],
    [ln |-> 828, cell |-> 29, k |-> "stmt", call |-> FALSE, a |-> "", w |-> {"injected_catalog"}, d |-> {}, r |-> {"injected_output"}],
    [ln |-> 852, cell |-> 30, k |-> "clone", call |-> TRUE, a |-> "injected_exposure", w |-> {"plot_injected_calexp"}, d |-> {},
     r |-> {"injected_exposure"}],
    [ln |-> 854, cell |-> 30, k |-> "stmt", call |-> TRUE, a |-> "", w |-> {"fig", "ax"}, d |-> {}, r |-> {}],
    [ln |-> 856, cell |-> 30, k |-> "stmt", call |-> TRUE, a |-> "", w |-> {}, d |-> {}, r |-> {"ax"}],
    [ln |-> 857, cell |-> 30, k |-> "stmt", call |-> TRUE, a |-> "", w |-> {"display0"}, d |-> {}, r |-> {"fig"}],
    [ln |-> 859, cell |-> 30, k |-> "stmt", call |-> TRUE, a |-> "", w |-> {}, d |-> {}, r |-> {"display0"}],
    [ln |-> 860, cell |-> 30, k |-> "display", call |-> TRUE, a |-> "calexp_g", w |-> {}, d |-> {}, r |-> {"display0", "calexp_g"}],
    [ln |-> 861, cell |-> 30, k |-> "stmt", call |-> TRUE, a |-> "", w |-> {}, d |-> {}, r |-> {}],
    [ln |-> 863, cell |-> 30, k |-> "stmt", call |-> TRUE, a |-> "", w |-> {}, d |-> {}, r |-> {"ax"}],
    [ln |-> 864, cell |-> 30, k |-> "stmt", call |-> TRUE, a |-> "", w |-> {"display1"}, d |-> {}, r |-> {"fig"}],
    [ln |-> 866, cell |-> 30, k |-> "stmt", call |-> TRUE, a |-> "", w |-> {}, d |-> {}, r |-> {"display1"}],
    [ln |-> 867, cell |-> 30, k |-> "display", call |-> TRUE, a |-> "plot_injected_calexp", w |-> {}, d |-> {},
     r |-> {"display1", "plot_injected_calexp"}],
    [ln |-> 870, cell |-> 30, k |-> "stmt", call |-> TRUE, a |-> "", w |-> {}, d |-> {}, r |-> {}],
    [ln |-> 872, cell |-> 30, k |-> "stmt", call |-> TRUE, a |-> "", w |-> {}, d |-> {}, r |-> {}],
    [ln |-> 873, cell |-> 30, k |-> "stmt", call |-> TRUE, a |-> "", w |-> {}, d |-> {}, r |-> {}],
    [ln |-> 904, cell |-> 31, k |-> "stmt", call |-> FALSE, a |-> "", w |-> {"difftemp"}, d |-> {}, r |-> {}],
    [ln |-> 905, cell |-> 31, k |-> "butler_get", call |-> TRUE, a |-> "", w |-> {"templateExposure"}, d |-> {},
     r |-> {"butler", "difftemp", "dataId_g"}],
    [ln |-> 935, cell |-> 32, k |-> "stmt", call |-> TRUE, a |-> "", w |-> {"config"}, d |-> {}, r |-> {}],
    [ln |-> 936, cell |-> 32, k |-> "try", call |-> FALSE, a |-> "", w |-> {}, d |-> {}, r |-> {"config"}],
    [ln |-> 941, cell |-> 32, k |-> "stmt", call |-> TRUE, a |-> "", w |-> {"alTask"}, d |-> {}, r |-> {"config"}],
    [ln |-> 943, cell |-> 32, k |-> "alias", call |-> FALSE, a |-> "injected_exposure", w |-> {"scienceExposure"}, d |-> {},
     r |-> {"injected_exposure"}],
    [ln |-> 945, cell |-> 32, k |-> "butler_get", call |-> TRUE, a |-> "", w |-> {"sources"}, d |-> {}, r |-> {"butler", "dataId_g"}],
    [ln |-> 946, cell |-> 32, k |-> "stmt", call |-> TRUE, a |-> "", w |-> {"result"}, d |-> {},
     r |-> {"alTask", "templateExposure", "scienceExposure", "sources"}],
    [ln |-> 969, cell |-> 33, k |-> "stmt", call |-> FALSE, a |-> "", w |-> {"xmin", "xmax"}, d |-> {}, r |-> {}],
    [ln |-> 970, cell |-> 33, k |-> "stmt", call |-> FALSE, a |-> "", w |-> {"ymin", "ymax"}, d |-> {}, r |-> {}],
    [ln |-> 972, cell |-> 33, k |-> "stmt", call |-> TRUE, a |-> "", w |-> {"fig", "ax"}, d |-> {}, r |-> {}],
    [ln |-> 973, cell |-> 33, k |-> "stmt", call |-> TRUE, a |-> "", w |-> {}, d |-> {}, r |-> {"ax"}],
    [ln |-> 974, cell |-> 33, k |-> "stmt", call |-> TRUE, a |-> "", w |-> {"display1"}, d |-> {}, r |-> {"fig"}],
    [ln |-> 975, cell |-> 33, k |-> "stmt", call |-> TRUE, a |-> "", w |-> {}, d |-> {}, r |-> {"display1"}],
    [ln |-> 976, cell |-> 33, k |-> "display", call |-> TRUE, a |-> "calexp_g", w |-> {}, d |-> {}, r |-> {"display1", "calexp_g"}],
    [ln |-> 977, cell |-> 33, k |-> "stmt", call |-> TRUE, a |-> "", w |-> {}, d |-> {}, r |-> {}],
    [ln |-> 978, cell |-> 33, k |-> "stmt", call |-> TRUE, a |-> "", w |-> {}, d |-> {}, r |-> {"xmin", "xmax"}],
    [ln |-> 979, cell |-> 33, k |-> "stmt", call |-> TRUE, a |-> "", w |-> {}, d |-> {}, r |-> {"ymin", "ymax"}],
    [ln |-> 980, cell |-> 33, k |-> "stmt", call |-> TRUE, a |-> "", w |-> {}, d |-> {}, r |-> {"ax"}],
    [ln |-> 981, cell |-> 33, k |-> "stmt", call |-> TRUE, a |-> "", w |-> {"display2"}, d |-> {}, r |-> {"fig"}],
    [ln |-> 982, cell |-> 33, k |-> "stmt", call |-> TRUE, a |-> "", w |-> {}, d |-> {}, r |-> {"display2"}],
    [ln |-> 983, cell |-> 33, k |-> "display", call |-> TRUE, a |-> "plot_injected_calexp", w |-> {}, d |-> {},
     r |-> {"display2", "plot_injected_calexp"}],
    [ln |-> 984, cell |-> 33, k |-> "stmt", call |-> TRUE, a |-> "", w |-> {}, d |-> {}, r |-> {}],
    [ln |-> 985, cell |-> 33, k |-> "stmt", call |-> TRUE, a |-> "", w |-> {}, d |-> {}, r |-> {"xmin", "xmax"}],
    [ln |-> 986, cell |-> 33, k |-> "stmt", call |-> TRUE, a |-> "", w |-> {}, d |-> {}, r |-> {"ymin", "ymax"}],
    [ln |-> 987, cell |-> 33, k |-> "stmt", call |-> TRUE, a |-> "", w |-> {}, d |-> {}, r |-> {"ax"}],
    [ln |-> 988, cell |-> 33, k |-> "stmt", call |-> TRUE, a |-> "", w |-> {"display3"}, d |-> {}, r |-> {"fig"}],
    [ln |-> 989, cell |-> 33, k |-> "stmt", call |-> TRUE, a |-> "", w |-> {}, d |-> {}, r |-> {"display3"}],
    [ln |-> 990, cell |-> 33, k |-> "stmt", call |-> TRUE, a |-> "", w |-> {}, d |-> {}, r |-> {"display3", "result"}],
    [ln |-> 991, cell |-> 33, k |-> "stmt", call |-> TRUE, a |-> "", w |-> {}, d |-> {}, r |-> {"xmin", "xmax"}],
    [ln |-> 992, cell |-> 33, k |-> "stmt", call |-> TRUE, a |-> "", w |-> {}, d |-> {}, r |-> {"ymin", "ymax"}],
    [ln |-> 993, cell |-> 33, k |-> "stmt", call |-> TRUE, a |-> "", w |-> {}, d |-> {}, r |-> {}],
    [ln |-> 994, cell |-> 33, k |-> "stmt", call |-> TRUE, a |-> "", w |-> {}, d |-> {}, r |-> {}],
    [ln |-> 995, cell |-> 33, k |-> "stmt", call |-> TRUE, a |-> "", w |-> {}, d |-> {}, r |-> {}]
  >>

NbMaps ==
  <<
    [ln |-> 1151, cell |-> 1, k |-> "import", call |-> FALSE, a |-> "", w |-> {}, d |-> {}, r |-> {}],
    [ln |-> 1152, cell |-> 1, k |-> "import", call |-> FALSE, a |-> "", w |-> {}, d |-> {}, r |-> {}],
    [ln |-> 1153, cell |-> 1, k |-> "import", call |-> FALSE, a |-> "", w |-> {}, d |-> {}, r |-> {}],
    [ln |-> 1154, cell |-> 1, k |-> "import", call |-> FALSE, a |-> "", w |-> {}, d |-> {}, r |-> {}],
    [ln |-> 1157, cell |-> 1, k |-> "import", call |-> FALSE, a |-> "", w |-> {}, d |-> {}, r |-> {}],
    [ln |-> 1158, cell |-> 1, k |-> "import", call |-> FALSE, a |-> "", w |-> {}, d |-> {}, r |-> {}],
    [ln |-> 1161, cell |-> 1, k |-> "import", call |-> FALSE, a |-> "", w |-> {}, d |-> {}, r |-> {}],
    [ln |-> 1162, cell |-> 1, k |-> "import", call |-> FALSE, a |-> "", w |-> {}, d |-> {}, r |-> {}],
    [ln |-> 1165, cell |-> 1, k |-> "stmt", call |-> FALSE, a |-> "", w |-> {}, d |-> {}, r |-> {}],
    [ln |-> 1168, cell |-> 1, k |-> "stmt", call |-> TRUE, a |-> "", w |-> {}, d |-> {}, r |-> {}],
    [ln |-> 1195, cell |-> 2, k |-> "stmt", call |-> FALSE, a |-> "", w |-> {"config"}, d |-> {}, r |-> {}],
    [ln |-> 1196, cell |-> 2, k |-> "stmt", call |-> FALSE, a |-> "", w |-> {"collections"}, d |-> {}, r |-> {}],
    [ln |-> 1197, cell |-> 2, k |-> "stmt", call |-> TRUE, a |-> "", w |-> {"butler"}, d |-> {}, r |-> {"config", "collections"}],
    [ln |-> 1217, cell |-> 3, k |-> "stmt", call |-> TRUE, a |-> "", w |-> {"dtype"}, d |-> {}, r |-> {"butler"}],
    [ln |-> 1257, cell |-> 4, k |-> "butler_get", call |-> TRUE, a |-> "", w |-> {"hspmap"}, d |-> {}, r |-> {"butler"}],
    [ln |-> 1289, cell |-> 5, k |-> "stmt", call |-> TRUE, a |-> "", w |-> {}, d |-> {}, r |-> {"hspmap"}],
    [ln |-> 1312, cell |-> 6, k |-> "stmt", call |-> TRUE, a |-> "", w |-> {}, d |-> {}, r |-> {"hspmap"}],
    [ln |-> 1332, cell |-> 7, k |-> "stmt", call |-> TRUE, a |-> "", w |-> {"ra"}, d |-> {}, r |-> {}],
    [ln |-> 1333, cell |-> 7, k |-> "stmt", call |-> TRUE, a |-> "", w |-> {}, d |-> {}, r |-> {"ra"}],
    [ln |-> 1334, cell |-> 7, k |-> "stmt", call |-> TRUE, a |-> "", w |-> {"dec"}, d |-> {}, r |-> {}],
    [ln |-> 1335, cell |-> 7, k |-> "stmt", call |-> TRUE, a |-> "", w |-> {}, d |-> {}, r |-> {"dec"}],
    [ln |-> 1336, cell |-> 7, k |-> "stmt", call |-> TRUE, a |-> "", w |-> {"d"}, d |-> {}, r |-> {"dec", "hspmap", "ra"}],
    [ln |-> 1338, cell |-> 7, k |-> "del", call |-> FALSE, a |-> "", w |-> {}, d |-> {"ra", "dec"}, r |-> {}],
    [ln |-> 1358, cell |-> 8, k |-> "stmt", call |-> TRUE, a |-> "", w |-> {}, d |-> {}, r |-> {"hspmap"}],
    [ln |-> 1382, cell |-> 9, k |-> "stmt", call |-> TRUE, a |-> "", w |-> {"ra"}, d |-> {}, r |-> {}],
    [ln |-> 1383, cell |-> 9, k |-> "stmt", call |-> TRUE, a |-> "", w |-> {"dec"}, d |-> {}, r |-> {}],
    [ln |-> 1384, cell |-> 9, k |-> "stmt", call |-> TRUE, a |-> "", w |-> {"x", "y"}, d |-> {}, r |-> {"ra", "dec"}],
    [ln |-> 1385, cell |-> 9, k |-> "stmt", call |-> TRUE, a |-> "", w |-> {"values"}, d |-> {}, r |-> {"hspmap", "x", "y"}],
    [ln |-> 1387, cell |-> 9, k |-> "stmt", call |-> TRUE, a |-> "", w |-> {"fig"}, d |-> {}, r |-> {}],
    [ln |-> 1388, cell |-> 9, k |-> "stmt", call |-> TRUE, a |-> "", w |-> {}, d |-> {}, r |-> {"x", "y", "values"}],
    [ln |-> 1389, cell |-> 9, k |-> "stmt", call |-> TRUE, a |-> "", w |-> {}, d |-> {}, r |-> {}],
    [ln |-> 1390, cell |-> 9, k |-> "stmt", call |-> TRUE, a |-> "", w |-> {}, d |-> {}, r |-> {}],
    [ln |-> 1391, cell |-> 9, k |-> "stmt", call |-> TRUE, a |-> "", w |-> {}, d |-> {}, r |-> {}],
    [ln |-> 1392, cell |-> 9, k |-> "stmt", call |-> TRUE, a |-> "", w |-> {}, d |-> {}, r |-> {}],
    [ln |-> 1394, cell |-> 9, k |-> "del", call |-> FALSE, a |-> "", w |-> {}, d |-> {"fig", "ra", "dec", "x", "y", "values"}, r |-> {}],
    [ln |-> 1419, cell |-> 10, k |-> "stmt", call |-> TRUE, a |-> "", w |-> {"fig", "ax"}, d |-> {}, r |-> {}],
    [ln |-> 1420, cell |-> 10, k |-> "stmt", call |-> TRUE, a |-> "", w |-> {"sp"}, d |-> {}, r |-> {"ax"}],
    [ln |-> 1421, cell |-> 10, k |-> "stmt", call |-> TRUE, a |-> "", w |-> {}, d |-> {}, r |-> {"sp", "hspmap"}],
    [ln |-> 1422, cell |-> 10, k |-> "stmt", call |-> TRUE, a |-> "", w |-> {}, d |-> {}, r |-> {"sp"}],
    [ln |-> 1423, cell |-> 10, k |-> "stmt", call |-> TRUE, a |-> "", w |-> {}, d |-> {}, r |-> {}],
    [ln |-> 1425, cell |-> 10, k |-> "del", call |-> FALSE, a |-> "", w |-> {}, d |-> {"fig", "ax", "sp"}, r |-> {}],
    [ln |-> 1447, cell |-> 11, k |-> "stmt", call |-> TRUE, a |-> "", w |-> {"fig", "ax"}, d |-> {}, r |-> {}],
    [ln |-> 1448, cell |-> 11, k |-> "stmt", call |-> TRUE, a |-> "", w |-> {"sp"}, d |-> {}, r |-> {"ax"}],
    [ln |-> 1449, cell |-> 11, k |-> "stmt", call |-> TRUE, a |-> "", w |-> {}, d |-> {}, r |-> {"sp", "hspmap"}],
    [ln |-> 1450, cell |-> 11, k |-> "stmt", call |-> TRUE, a |-> "", w |-> {}, d |-> {}, r |-> {"sp"}],
    [ln |-> 1451, cell |-> 11, k |-> "stmt", call |-> TRUE, a |-> "", w |-> {}, d |-> {}, r |-> {}],
    [ln |-> 1453, cell |-> 11, k |-> "del", call |-> FALSE, a |-> "", w |-> {}, d |-> {"fig", "ax", "sp"}, r |-> {}],
    [ln |-> 1477, cell |-> 12, k |-> "stmt", call |-> TRUE, a |-> "", w |-> {"fig", "ax"}, d |-> {}, r |-> {}],
    [ln |-> 1478, cell |-> 12, k |-> "stmt", call |-> TRUE, a |-> "", w |-> {"sp"}, d |-> {}, r |-> {"ax"}],
    [ln |-> 1479, cell |-> 12, k |-> "stmt", call |-> TRUE, a |-> "", w |-> {}, d |-> {}, r |-> {"sp", "hspmap"}],
    [ln |-> 1480, cell |-> 12, k |-> "stmt", call |-> TRUE, a |-> "", w |-> {}, d |-> {}, r |-> {"sp"}],
    [ln |-> 1481, cell |-> 12, k |-> "stmt", call |-> TRUE, a |-> "", w |-> {}, d |-> {}, r |-> {}],
    [ln |-> 1483, cell |-> 12, k |-> "del", call |-> FALSE, a |-> "", w |-> {}, d |-> {"fig", "ax", "sp"}, r |-> {}],
    [ln |-> 1509, cell |-> 13, k |-> "stmt", call |-> FALSE, a |-> "", w |-> {"ra_deg"}, d |-> {}, r |-> {}],
    [ln |-> 1510, cell |-> 13, k |-> "stmt", call |-> FALSE, a |-> "", w |-> {"dec_deg"}, d |-> {}, r |-> {}],
    [ln |-> 1511, cell |-> 13, k |-> "stmt", call |-> TRUE, a |-> "", w |-> {"spherePoint"}, d |-> {}, r |-> {"ra_deg", "dec_deg"}],
    [ln |-> 1512, cell |-> 13, k |-> "butler_get", call |-> TRUE, a |-> "", w |-> {"skymap"}, d |-> {}, r |-> {"butler"}],
    [ln |-> 1524, cell |-> 14, k |-> "stmt", call |-> TRUE, a |-> "", w |-> {"tract"}, d |-> {}, r |-> {"skymap", "spherePoint"}],
    [ln |-> 1525, cell |-> 14, k |-> "stmt", call |-> TRUE, a |-> "", w |-> {"patch"}, d |-> {}, r |-> {"tract", "spherePoint"}],
    [ln |-> 1526, cell |-> 14, k |-> "stmt", call |-> FALSE, a |-> "", w |-> {"tract"}, d |-> {}, r |-> {"tract"}],
    [ln |-> 1527, cell |-> 14, k |-> "stmt", call |-> TRUE, a |-> "", w |-> {"patch"}, d |-> {}, r |-> {"patch"}],
    [ln |-> 1539, cell |-> 15, k |-> "stmt", call |-> FALSE, a |-> "", w |-> {"dataId"}, d |-> {}, r |-> {"tract", "patch"}],
    [ln |-> 1540, cell |-> 15, k |-> "butler_get", call |-> TRUE, a |-> "", w |-> {"deepCoadd"}, d |-> {}, r |-> {"butler", "dataId"}],
    [ln |-> 1560, cell |-> 16, k |-> "stmt", call |-> FALSE, a |-> "", w |-> {"deepCoadd_wcs"}, d |-> {}, r |-> {"deepCoadd"}],
    [ln |-> 1561, cell |-> 16, k |-> "stmt", call |-> TRUE, a |-> "", w |-> {"deepCoadd_bbox"}, d |-> {}, r |-> {"deepCoadd"}],
    [ln |-> 1573, cell |-> 17, k |-> "stmt", call |-> TRUE, a |-> "", w |-> {"deepCoadd_extent"}, d |-> {}, r |-> {"deepCoadd"}],
    [ln |-> 1586, cell |-> 18, k |-> "stmt", call |-> TRUE, a |-> "", w |-> {"corners"}, d |-> {}, r |-> {"deepCoadd_wcs", "deepCoadd_bbox"}],
    [ln |-> 1641, cell |-> 20, k |-> "butler_get", call |-> TRUE, a |-> "", w |-> {"hspmap_psf"}, d |-> {}, r |-> {"butler"}],
    [ln |-> 1653, cell |-> 21, k |-> "butler_get", call |-> TRUE, a |-> "", w |-> {"hspmap_sky"}, d |-> {}, r |-> {"butler"}],
    [ln |-> 1671, cell |-> 22, k |-> "stmt", call |-> TRUE, a |-> "", w |-> {"corner"}, d |-> {}, r |-> {"corners"}],
    [ln |-> 1682, cell |-> 23, k |-> "stmt", call |-> TRUE, a |-> "", w |-> {"ra"}, d |-> {}, r |-> {}],
    [ln |-> 1683, cell |-> 23, k |-> "stmt", call |-> TRUE, a |-> "", w |-> {"dec"}, d |-> {}, r |-> {}],
    [ln |-> 1684, cell |-> 23, k |-> "stmt", call |-> TRUE, a |-> "", w |-> {"x", "y"}, d |-> {}, r |-> {"ra", "dec"}],
    [ln |-> 1706, cell |-> 24, k |-> "stmt", call |-> TRUE, a |-> "", w |-> {"xtick_locs"}, d |-> {}, r |-> {"deepCoadd_extent"}],
    [ln |-> 1707, cell |-> 24, k |-> "stmt", call |-> TRUE, a |-> "", w |-> {"ytick_locs"}, d |-> {}, r |-> {"deepCoadd_extent"}],
    [ln |-> 1708, cell |-> 24, k |-> "stmt", call |-> FALSE, a |-> "", w |-> {"xtick_lbls"}, d |-> {}, r |-> {}],
    [ln |-> 1709, cell |-> 24, k |-> "stmt", call |-> FALSE, a |-> "", w |-> {"ytick_lbls"}, d |-> {}, r |-> {}],
    [ln |-> 1710, cell |-> 24, k |-> "stmt", call |-> TRUE, a |-> "", w |-> {"xt", "yt", "temp"}, d |-> {},
     r |-> {"xtick_locs", "ytick_locs", "deepCoadd_wcs", "xtick_lbls", "ytick_lbls"}],
    [ln |-> 1754, cell |-> 26, k |-> "stmt", call |-> TRUE, a |-> "", w |-> {"fig", "ax"}, d |-> {}, r |-> {}],
    [ln |-> 1756, cell |-> 26, k |-> "stmt", call |-> TRUE, a |-> "", w |-> {"temp"}, d |-> {}, r |-> {"deepCoadd"}],
    [ln |-> 1757, cell |-> 26, k |-> "stmt", call |-> TRUE, a |-> "", w |-> {"norm"}, d |-> {}, r |-> {"temp"}],
    [ln |-> 1758, cell |-> 26, k |-> "stmt", call |-> TRUE, a |-> "", w |-> {"im"}, d |-> {}, r |-> {"ax", "deepCoadd", "norm", "deepCoadd_extent"}],
    [ln |-> 1760, cell |-> 26, k |-> "stmt", call |-> TRUE, a |-> "", w |-> {}, d |-> {}, r |-> {"fig", "im", "ax"}],
    [ln |-> 1761, cell |-> 26, k |-> "stmt", call |-> TRUE, a |-> "", w |-> {}, d |-> {}, r |-> {"ax", "xtick_locs", "xtick_lbls"}],
    [ln |-> 1762, cell |-> 26, k |-> "stmt", call |-> TRUE, a |-> "", w |-> {}, d |-> {}, r |-> {"ax", "ytick_locs", "ytick_lbls"}],
    [ln |-> 1763, cell |-> 26, k |-> "stmt", call |-> TRUE, a |-> "", w |-> {}, d |-> {}, r |-> {"ax"}],
    [ln |-> 1765, cell |-> 26, k |-> "stmt", call |-> TRUE, a |-> "", w |-> {"values"}, d |-> {}, r |-> {"hspmap", "x", "y"}],
    [ln |-> 1766, cell |-> 26, k |-> "stmt", call |-> TRUE, a |-> "", w |-> {"pcm"}, d |-> {}, r |-> {"ax", "x", "y", "values"}],
    [ln |-> 1767, cell |-> 26, k |-> "stmt", call |-> TRUE, a |-> "", w |-> {}, d |-> {}, r |-> {"fig", "pcm", "ax"}],
    [ln |-> 1768, cell |-> 26, k |-> "stmt", call |-> TRUE, a |-> "", w |-> {}, d |-> {}, r |-> {"ax"}],
    [ln |-> 1769, cell |-> 26, k |-> "stmt", call |-> TRUE, a |-> "", w |-> {}, d |-> {}, r |-> {"ax"}],
    [ln |-> 1770, cell |-> 26, k |-> "del", call |-> FALSE, a |-> "", w |-> {}, d |-> {"pcm", "values"}, r |-> {}],
    [ln |-> 1772, cell |-> 26, k |-> "stmt", call |-> TRUE, a |-> "", w |-> {"values"}, d |-> {}, r |-> {"hspmap_psf", "x", "y"}],
    [ln |-> 1773, cell |-> 26, k |-> "stmt", call |-> TRUE, a |-> "", w |-> {"pcm"}, d |-> {}, r |-> {"ax", "x", "y", "values"}],
    [ln |-> 1774, cell |-> 26, k |-> "stmt", call |-> TRUE, a |-> "", w |-> {}, d |-> {}, r |-> {"fig", "pcm", "ax"}],
    [ln |-> 1775, cell |-> 26, k |-> "stmt", call |-> TRUE, a |-> "", w |-> {}, d |-> {}, r |-> {"ax"}],
    [ln |-> 1776, cell |-> 26, k |-> "stmt", call |-> TRUE, a |-> "", w |-> {}, d |-> {}, r |-> {"ax"}],
    [ln |-> 1777, cell |-> 26, k |-> "del", call |-> FALSE, a |-> "", w |-> {}, d |-> {"pcm", "values"}, r |-> {}],
    [ln |-> 1779, cell |-> 26, k |-> "stmt", call |-> TRUE, a |-> "", w |-> {"values"}, d |-> {}, r |-> {"hspmap_sky", "x", "y"}],
    [ln |-> 1780, cell |-> 26, k |-> "stmt", call |-> TRUE, a |-> "", w |-> {"pcm"}, d |-> {}, r |-> {"ax", "x", "y", "values"}],
    [ln |-> 1781, cell |-> 26, k |-> "stmt", call |-> TRUE, a |-> "", w |-> {}, d |-> {}, r |-> {"fig", "pcm", "ax"}],
    [ln |-> 1782, cell |-> 26, k |-> "stmt", call |-> TRUE, a |-> "", w |-> {}, d |-> {}, r |-> {"ax"}],
    [ln |-> 1783, cell |-> 26, k |-> "stmt", call |-> TRUE, a |-> "", w |-> {}, d |-> {}, r |-> {"ax"}],
    [ln |-> 1784, cell |-> 26, k |-> "del", call |-> FALSE, a |-> "", w |-> {}, d |-> {"pcm", "values"}, r |-> {}],
    [ln |-> 1786, cell |-> 26, k |-> "stmt", call |-> TRUE, a |-> "", w |-> {}, d |-> {}, r |-> {}],
    [ln |-> 1788, cell |-> 26, k |-> "del", call |-> FALSE, a |-> "", w |-> {}, d |-> {"fig", "ax", "temp", "norm"}, r |-> {}]
  >>

NbViz ==
  <<
    [ln |-> 97, cell |-> 1, k |-> "import", call |-> FALSE, a |-> "", w |-> {}, d |-> {}, r |-> {}],
    [ln |-> 98, cell |-> 1, k |-> "import", call |-> FALSE, a |-> "", w |-> {}, d |-> {}, r |-> {}],
    [ln |-> 99, cell |-> 1, k |-> "import", call |-> FALSE, a |-> "", w |-> {}, d |-> {}, r |-> {}],
    [ln |-> 102, cell |-> 1, k |-> "import", call |-> FALSE, a |-> "", w |-> {}, d |-> {}, r |-> {}],
    [ln |-> 105, cell |-> 1, k |-> "import", call |-> FALSE, a |-> "", w |-> {}, d |-> {}, r |-> {}],
    [ln |-> 108, cell |-> 1, k |-> "import", call |-> FALSE, a |-> "", w |-> {}, d |-> {}, r |-> {}],
    [ln |-> 109, cell |-> 1, k |-> "import", call |-> FALSE, a |-> "", w |-> {}, d |-> {}, r |-> {}],
    [ln |-> 110, cell |-> 1, k |-> "import", call |-> FALSE, a |-> "", w |-> {}, d |-> {}, r |-> {}],
    [ln |-> 113, cell |-> 1, k |-> "import", call |-> FALSE, a |-> "", w |-> {}, d |-> {}, r |-> {}],
    [ln |-> 114, cell |-> 1, k |-> "import", call |-> FALSE, a |-> "", w |-> {}, d |-> {}, r |-> {}],
    [ln |-> 115, cell |-> 1, k |-> "import", call |-> FALSE, a |-> "", w |-> {}, d |-> {}, r |-> {}],
    [ln |-> 134, cell |-> 2, k |-> "stmt", call |-> TRUE, a |-> "", w |-> {}, d |-> {}, r |-> {}],
    [ln |-> 135, cell |-> 2, k |-> "stmt", call |-> TRUE, a |-> "", w |-> {}, d |-> {}, r |-> {}],
    [ln |-> 160, cell |-> 3, k |-> "stmt", call |-> TRUE, a |-> "", w |-> {}, d |-> {}, r |-> {}],
    [ln |-> 178, cell |-> 4, k |-> "stmt", call |-> TRUE, a |-> "", w |-> {}, d |-> {}, r |-> {}],
    [ln |-> 196, cell |-> 5, k |-> "def", call |-> FALSE, a |-> "", w |-> {"dataIdToString"}, d |-> {}, r |-> {}],
    [ln |-> 246, cell |-> 6, k |-> "stmt", call |-> FALSE, a |-> "", w |-> {"config"}, d |-> {}, r |-> {}],
    [ln |-> 247, cell |-> 6, k |-> "stmt", call |-> FALSE, a |-> "", w |-> {"collection"}, d |-> {}, r |-> {}],
    [ln |-> 248, cell |-> 6, k |-> "stmt", call |-> TRUE, a |-> "", w |-> {"butler"}, d |-> {}, r |-> {"config", "collection"}],
    [ln |-> 268, cell |-> 7, k |-> "stmt", call |-> FALSE, a |-> "", w |-> {"calexpId"}, d |-> {}, r |-> {}],
    [ln |-> 269, cell |-> 7, k |-> "butler_get", call |-> TRUE, a |-> "", w |-> {"calexp"}, d |-> {}, r |-> {"butler", "calexpId"}],
    [ln |-> 271, cell |-> 7, k |-> "stmt", call |-> FALSE, a |-> "", w |-> {}, d |-> {}, r |-> {"calexp"}],
    [ln |-> 273, cell |-> 7, k |-> "stmt", call |-> TRUE, a |-> "", w |-> {}, d |-> {}, r |-> {"dataIdToString", "calexpId"}],
    [ln |-> 275, cell |-> 7, k |-> "stmt", call |-> TRUE, a |-> "", w |-> {}, d |-> {}, r |-> {"calexp"}],
    [ln |-> 276, cell |-> 7, k |-> "stmt", call |-> TRUE, a |-> "", w |-> {}, d |-> {}, r |-> {"calexp"}],
    [ln |-> 277, cell |-> 7, k |-> "stmt", call |-> TRUE, a |-> "", w |-> {}, d |-> {}, r |-> {"calexp"}],
    [ln |-> 295, cell |-> 8, k |-> "butler_get", call |-> TRUE, a |-> "", w |-> {"calexp_sources"}, d |-> {}, r |-> {"butler", "calexpId"}],
    [ln |-> 296, cell |-> 8, k |-> "stmt", call |-> TRUE, a |-> "", w |-> {}, d |-> {}, r |-> {"calexp_sources"}],
    [ln |-> 316, cell |-> 9, k |-> "stmt", call |-> FALSE, a |-> "", w |-> {"coaddId"}, d |-> {}, r |-> {}],
    [ln |-> 317, cell |-> 9, k |-> "butler_get", call |-> TRUE, a |-> "", w |-> {"coadd"}, d |-> {}, r |-> {"butler", "coaddId"}],
    [ln |-> 319, cell |-> 9, k |-> "stmt", call |-> FALSE, a |-> "", w |-> {}, d |-> {}, r |-> {"coadd"}],
    [ln |-> 338, cell |-> 10, k |-> "stmt", call |-> TRUE, a |-> "", w |-> {"coaddInfo"}, d |-> {}, r |-> {"coadd"}],
    [ln |-> 339, cell |-> 10, k |-> "stmt", call |-> TRUE, a |-> "", w |-> {"coaddVisits"}, d |-> {}, r |-> {"coaddInfo"}],
    [ln |-> 340, cell |-> 10, k |-> "stmt", call |-> TRUE, a |-> "", w |-> {}, d |-> {}, r |-> {"coaddVisits"}],
    [ln |-> 358, cell |-> 11, k |-> "butler_get", call |-> TRUE, a |-> "", w |-> {"coadd_objects"}, d |-> {}, r |-> {"butler", "coaddId"}],
    [ln |-> 359, cell |-> 11, k |-> "stmt", call |-> TRUE, a |-> "", w |-> {}, d |-> {}, r |-> {"coadd_objects"}],
    [ln |-> 385, cell |-> 12, k |-> "stmt", call |-> FALSE, a |-> "", w |-> {"co_ra"}, d |-> {}, r |-> {"coadd_objects"}],
    [ln |-> 386, cell |-> 12, k |-> "stmt", call |-> FALSE, a |-> "", w |-> {"co_dec"}, d |-> {}, r |-> {"coadd_objects"}],
    [ln |-> 387, cell |-> 12, k |-> "stmt", call |-> FALSE, a |-> "", w |-> {"co_cF"}, d |-> {}, r |-> {"coadd_objects"}],
    [ln |-> 388, cell |-> 12, k |-> "stmt", call |-> FALSE, a |-> "", w |-> {"co_cFf"}, d |-> {}, r |-> {"coadd_objects"}],
    [ln |-> 389, cell |-> 12, k |-> "stmt", call |-> FALSE, a |-> "", w |-> {"co_diP"}, d |-> {}, r |-> {"coadd_objects"}],
    [ln |-> 390, cell |-> 12, k |-> "stmt", call |-> TRUE, a |-> "", w |-> {"tx"}, d |-> {}, r |-> {"co_diP", "co_cF", "co_cFf"}],
    [ln |-> 391, cell |-> 12, k |-> "stmt", call |-> TRUE, a |-> "", w |-> {}, d |-> {}, r |-> {"tx"}],
    [ln |-> 411, cell |-> 13, k |-> "stmt", call |-> TRUE, a |-> "", w |-> {"fig", "ax"}, d |-> {}, r |-> {}],
    [ln |-> 413, cell |-> 13, k |-> "stmt", call |-> TRUE, a |-> "", w |-> {}, d |-> {}, r |-> {"ax", "co_ra", "tx", "co_dec"}],
    [ln |-> 415, cell |-> 13, k |-> "stmt", call |-> TRUE, a |-> "", w |-> {}, d |-> {}, r |-> {"ax", "calexp_sources"}],
    [ln |-> 417, cell |-> 13, k |-> "stmt", call |-> TRUE, a |-> "", w |-> {}, d |-> {}, r |-> {"ax"}],
    [ln |-> 418, cell |-> 13, k |-> "stmt", call |-> TRUE, a |-> "", w |-> {}, d |-> {}, r |-> {"ax"}],
    [ln |-> 419, cell |-> 13, k |-> "stmt", call |-> TRUE, a |-> "", w |-> {}, d |-> {}, r |-> {"ax"}],
    [ln |-> 421, cell |-> 13, k |-> "stmt", call |-> TRUE, a |-> "", w |-> {}, d |-> {}, r |-> {"ax", "co_cF", "tx"}],
    [ln |-> 423, cell |-> 13, k |-> "stmt", call |-> TRUE, a |-> "", w |-> {}, d |-> {}, r |-> {"ax", "calexp_sources"}],
    [ln |-> 425, cell |-> 13, k |-> "stmt", call |-> TRUE, a |-> "", w |-> {}, d |-> {}, r |-> {"ax"}],
    [ln |-> 426, cell |-> 13, k |-> "stmt", call |-> TRUE, a |-> "", w |-> {}, d |-> {}, r |-> {"ax"}],
    [ln |-> 427, cell |-> 13, k |-> "stmt", call |-> TRUE, a |-> "", w |-> {}, d |-> {}, r |-> {"ax"}],
    [ln |-> 429, cell |-> 13, k |-> "stmt", call |-> TRUE, a |-> "", w |-> {}, d |-> {}, r |-> {}],
    [ln |-> 481, cell |-> 14, k |-> "stmt", call |-> TRUE, a |-> "", w |-> {"transform"}, d |-> {}, r |-> {}],
    [ln |-> 482, cell |-> 14, k |-> "stmt", call |-> TRUE, a |-> "", w |-> {"scaledImage"}, d |-> {}, r |-> {"transform", "calexp"}],
    [ln |-> 500, cell |-> 15, k |-> "stmt", call |-> TRUE, a |-> "", w |-> {"scaledImage"}, d |-> {}, r |-> {"scaledImage"}],
    [ln |-> 501, cell |-> 15, k |-> "stmt", call |-> TRUE, a |-> "", w |-> {"bounds_img"}, d |-> {}, r |-> {"calexp"}],
    [ln |-> 521, cell |-> 16, k |-> "stmt", call |-> TRUE, a |-> "", w |-> {"img_opts"}, d |-> {}, r |-> {}],
    [ln |-> 542, cell |-> 17, k |-> "stmt", call |-> TRUE, a |-> "", w |-> {"img"}, d |-> {},
     r |-> {"scaledImage", "bounds_img", "dataIdToString", "calexpId", "img_opts"}],
    [ln |-> 564, cell |-> 18, k |-> "stmt", call |-> TRUE, a |-> "", w |-> {}, d |-> {}, r |-> {"img"}],
    [ln |-> 607, cell |-> 19, k |-> "stmt", call |-> TRUE, a |-> "", w |-> {"outputDir"}, d |-> {}, r |-> {}],
    [ln |-> 608, cell |-> 19, k |-> "stmt", call |-> FALSE, a |-> "", w |-> {"outputFileBaseName"}, d |-> {}, r |-> {}],
    [ln |-> 609, cell |-> 19, k |-> "stmt", call |-> TRUE, a |-> "", w |-> {"outputFile"}, d |-> {}, r |-> {"outputDir", "outputFileBaseName"}],
    [ln |-> 611, cell |-> 19, k |-> "stmt", call |-> TRUE, a |-> "", w |-> {}, d |-> {}, r |-> {"outputFile"}],
    [ln |-> 629, cell |-> 20, k |-> "hv_save", call |-> TRUE, a |-> "", w |-> {}, d |-> {}, r |-> {"img", "outputFile"}],
    [ln |-> 664, cell |-> 21, k |-> "stmt", call |-> FALSE, a |-> "", w |-> {"coords"}, d |-> {}, r |-> {"calexp_sources"}],
    [ln |-> 682, cell |-> 22, k |-> "stmt", call |-> TRUE, a |-> "", w |-> {"detHoverTool"}, d |-> {}, r |-> {}],
    [ln |-> 693, cell |-> 22, k |-> "stmt", call |-> TRUE, a |-> "", w |-> {"detections"}, d |-> {}, r |-> {"coords", "detHoverTool"}],
    [ln |-> 716, cell |-> 23, k |-> "stmt", call |-> TRUE, a |-> "", w |-> {}, d |-> {}, r |-> {"img", "detections", "detHoverTool"}],
    [ln |-> 750, cell |-> 24, k |-> "stmt", call |-> FALSE, a |-> "", w |-> {"boundsxy"}, d |-> {}, r |-> {}],
    [ln |-> 751, cell |-> 24, k |-> "stmt", call |-> TRUE, a |-> "", w |-> {"box"}, d |-> {}, r |-> {"img", "boundsxy"}],
    [ln |-> 752, cell |-> 24, k |-> "stmt", call |-> TRUE, a |-> "", w |-> {"dynamicMap"}, d |-> {}, r |-> {"box"}],
    [ln |-> 770, cell |-> 25, k |-> "stmt", call |-> TRUE, a |-> "", w |-> {}, d |-> {}, r |-> {"img", "dynamicMap"}],
    [ln |-> 791, cell |-> 26, k |-> "stmt", call |-> FALSE, a |-> "", w |-> {}, d |-> {}, r |-> {"box"}],
    [ln |-> 813, cell |-> 27, k |-> "stmt", call |-> TRUE, a |-> "", w |-> {"posxy"}, d |-> {}, r |-> {"img", "calexp"}],
    [ln |-> 815, cell |-> 27, k |-> "stmt", call |-> TRUE, a |-> "", w |-> {"marker"}, d |-> {}, r |-> {"posxy"}],
    [ln |-> 816, cell |-> 27, k |-> "stmt", call |-> TRUE, a |-> "", w |-> {}, d |-> {}, r |-> {"img", "marker"}],
    [ln |-> 834, cell |-> 28, k |-> "stmt", call |-> TRUE, a |-> "", w |-> {}, d |-> {}, r |-> {"posxy", "scaledImage", "calexp"}]
  >>

NbWl ==
  <<
    [ln |-> 102, cell |-> 1, k |-> "import", call |-> FALSE, a |-> "", w |-> {}, d |-> {}, r |-> {}],
    [ln |-> 104, cell |-> 1, k |-> "import", call |-> FALSE, a |-> "", w |-> {}, d |-> {}, r |-> {}],
    [ln |-> 105, cell |-> 1, k |-> "import", call |-> FALSE, a |-> "", w |-> {}, d |-> {}, r |-> {}],
    [ln |-> 106, cell |-> 1, k |-> "import", call |-> FALSE, a |-> "", w |-> {}, d |-> {}, r |-> {}],
    [ln |-> 107, cell |-> 1, k |-> "import", call |-> FALSE, a |-> "", w |-> {}, d |-> {}, r |-> {}],
    [ln |-> 110, cell |-> 1, k |-> "import", call |-> FALSE, a |-> "", w |-> {}, d |-> {}, r |-> {}],
    [ln |-> 111, cell |-> 1, k |-> "import", call |-> FALSE, a |-> "", w |-> {}, d |-> {}, r |-> {}],
    [ln |-> 113, cell |-> 1, k |-> "import", call |-> FALSE, a |-> "", w |-> {}, d |-> {}, r |-> {}],
    [ln |-> 115, cell |-> 1, k |-> "stmt", call |-> TRUE, a |-> "", w |-> {}, d |-> {}, r |-> {}],
    [ln |-> 116, cell |-> 1, k |-> "stmt", call |-> TRUE, a |-> "", w |-> {}, d |-> {}, r |-> {}],
    [ln |-> 135, cell |-> 2, k |-> "def", call |-> FALSE, a |-> "", w |-> {"get_stat"}, d |-> {}, r |-> {}],
    [ln |-> 195, cell |-> 3, k |-> "get_tap", call |-> TRUE, a |-> "", w |-> {"service"}, d |-> {}, r |-> {}],
    [ln |-> 196, cell |-> 3, k |-> "assert_service", call |-> FALSE, a |-> "", w |-> {}, d |-> {}, r |-> {"service"}],
    [ln |-> 206, cell |-> 4, k |-> "stmt", call |-> FALSE, a |-> "", w |-> {"center_ra"}, d |-> {}, r |-> {}],
    [ln |-> 207, cell |-> 4, k |-> "stmt", call |-> FALSE, a |-> "", w |-> {"center_dec"}, d |-> {}, r |-> {}],
    [ln |-> 208, cell |-> 4, k |-> "stmt", call |-> FALSE, a |-> "", w |-> {"radius"}, d |-> {}, r |-> {}],
    [ln |-> 210, cell |-> 4, k |-> "stmt", call |-> TRUE, a |-> "", w |-> {"str_center_coords"}, d |-> {}, r |-> {"center_ra", "center_dec"}],
    [ln |-> 211, cell |-> 4, k |-> "stmt", call |-> TRUE, a |-> "", w |-> {"str_radius"}, d |-> {}, r |-> {"radius"}],
    [ln |-> 213, cell |-> 4, k |-> "stmt", call |-> FALSE, a |-> "", w |-> {"query"}, d |-> {}, r |-> {"str_center_coords", "str_radius"}],
    [ln |-> 230, cell |-> 4, k |-> "stmt", call |-> TRUE, a |-> "", w |-> {}, d |-> {}, r |-> {"query"}],
    [ln |-> 248, cell |-> 5, k |-> "submit_job", call |-> TRUE, a |-> "", w |-> {"job"}, d |-> {}, r |-> {"service", "query"}],
    [ln |-> 249, cell |-> 5, k |-> "job_run", call |-> TRUE, a |-> "", w |-> {}, d |-> {}, r |-> {"job"}],
    [ln |-> 250, cell |-> 5, k |-> "job_wait", call |-> TRUE, a |-> "", w |-> {}, d |-> {}, r |-> {"job"}],
    [ln |-> 251, cell |-> 5, k |-> "stmt", call |-> TRUE, a |-> "", w |-> {}, d |-> {}, r |-> {"job"}],
    [ln |-> 252, cell |-> 5, k |-> "assert_phase", call |-> FALSE, a |-> "", w |-> {}, d |-> {}, r |-> {"job"}],
    [ln |-> 270, cell |-> 6, k |-> "fetch", call |-> TRUE, a |-> "", w |-> {"data"}, d |-> {}, r |-> {"job"}],
    [ln |-> 271, cell |-> 6, k |-> "job_delete", call |-> TRUE, a |-> "", w |-> {}, d |-> {}, r |-> {"job"}],
    [ln |-> 289, cell |-> 7, k |-> "del", call |-> FALSE, a |-> "", w |-> {}, d |-> {"query"}, r |-> {}],
    [ln |-> 307, cell |-> 8, k |-> "stmt", call |-> FALSE, a |-> "", w |-> {"data"}, d |-> {}, r |-> {"data"}],
    [ln |-> 308, cell |-> 8, k |-> "stmt", call |-> FALSE, a |-> "", w |-> {"data"}, d |-> {}, r |-> {"data"}],
    [ln |-> 326, cell |-> 9, k |-> "stmt", call |-> FALSE, a |-> "", w |-> {"r_SNR"}, d |-> {}, r |-> {"data"}],
    [ln |-> 327, cell |-> 9, k |-> "stmt", call |-> FALSE, a |-> "", w |-> {"g_SNR"}, d |-> {}, r |-> {"data"}],
    [ln |-> 329, cell |-> 9, k |-> "stmt", call |-> FALSE, a |-> "", w |-> {"sel"}, d |-> {}, r |-> {"r_SNR"}],
    [ln |-> 330, cell |-> 9, k |-> "stmt", call |-> FALSE, a |-> "", w |-> {"sel"}, d |-> {}, r |-> {"g_SNR", "sel"}],
    [ln |-> 353, cell |-> 10, k |-> "stmt", call |-> FALSE, a |-> "", w |-> {"e1"}, d |-> {}, r |-> {"data"}],
    [ln |-> 354, cell |-> 10, k |-> "stmt", call |-> FALSE, a |-> "", w |-> {"e2"}, d |-> {}, r |-> {"data"}],
    [ln |-> 355, cell |-> 10, k |-> "stmt", call |-> FALSE, a |-> "", w |-> {"sel"}, d |-> {}, r |-> {"e1", "e2", "sel"}],
    [ln |-> 356, cell |-> 10, k |-> "stmt", call |-> TRUE, a |-> "", w |-> {}, d |-> {}, r |-> {"sel", "data"}],
    [ln |-> 374, cell |-> 11, k |-> "stmt", call |-> FALSE, a |-> "", w |-> {"data_s"}, d |-> {}, r |-> {"data", "sel"}],
    [ln |-> 396, cell |-> 12, k |-> "stmt", call |-> TRUE, a |-> "", w |-> {"r_cModel"}, d |-> {}, r |-> {"data_s"}],
    [ln |-> 397, cell |-> 12, k |-> "stmt", call |-> TRUE, a |-> "", w |-> {"g_cModel"}, d |-> {}, r |-> {"data_s"}],
    [ln |-> 399, cell |-> 12, k |-> "stmt", call |-> TRUE, a |-> "", w |-> {"fac"}, d |-> {}, r |-> {}],
    [ln |-> 400, cell |-> 12, k |-> "stmt", call |-> FALSE, a |-> "", w |-> {"r_cModel_err"}, d |-> {}, r |-> {"fac", "r_SNR", "sel"}],
    [ln |-> 420, cell |-> 13, k |-> "stmt", call |-> TRUE, a |-> "", w |-> {}, d |-> {}, r |-> {}],
    [ln |-> 421, cell |-> 13, k |-> "stmt", call |-> TRUE, a |-> "", w |-> {}, d |-> {}, r |-> {"r_cModel", "g_cModel"}],
    [ln |-> 425, cell |-> 13, k |-> "stmt", call |-> FALSE, a |-> "", w |-> {"sel_rs"}, d |-> {}, r |-> {"g_cModel", "r_cModel"}],
    [ln |-> 426, cell |-> 13, k |-> "stmt", call |-> FALSE, a |-> "", w |-> {"sel_rs"}, d |-> {}, r |-> {"g_cModel", "r_cModel", "sel_rs"}],
    [ln |-> 427, cell |-> 13, k |-> "stmt", call |-> FALSE, a |-> "", w |-> {"sel_rs"}, d |-> {}, r |-> {"r_cModel", "sel_rs"}],
    [ln |-> 429, cell |-> 13, k |-> "stmt", call |-> TRUE, a |-> "", w |-> {}, d |-> {}, r |-> {"r_cModel", "sel_rs", "g_cModel"}],
    [ln |-> 434, cell |-> 13, k |-> "stmt", call |-> FALSE, a |-> "", w |-> {"sel_bg"}, d |-> {}, r |-> {"g_cModel", "r_cModel"}],
    [ln |-> 436, cell |-> 13, k |-> "stmt", call |-> TRUE, a |-> "", w |-> {}, d |-> {}, r |-> {"r_cModel", "sel_bg", "g_cModel"}],
    [ln |-> 441, cell |-> 13, k |-> "stmt", call |-> TRUE, a |-> "", w |-> {"_"}, d |-> {}, r |-> {}],
    [ln |-> 443, cell |-> 13, k |-> "stmt", call |-> TRUE, a |-> "", w |-> {}, d |-> {}, r |-> {}],
    [ln |-> 444, cell |-> 13, k |-> "stmt", call |-> TRUE, a |-> "", w |-> {}, d |-> {}, r |-> {}],
    [ln |-> 445, cell |-> 13, k |-> "stmt", call |-> TRUE, a |-> "", w |-> {}, d |-> {}, r |-> {}],
    [ln |-> 446, cell |-> 13, k |-> "stmt", call |-> TRUE, a |-> "", w |-> {}, d |-> {}, r |-> {}],
    [ln |-> 447, cell |-> 13, k |-> "stmt", call |-> TRUE, a |-> "", w |-> {}, d |-> {}, r |-> {}],
    [ln |-> 473, cell |-> 14, k |-> "stmt", call |-> TRUE, a |-> "", w |-> {}, d |-> {}, r |-> {}],
    [ln |-> 475, cell |-> 14, k |-> "stmt", call |-> TRUE, a |-> "", w |-> {}, d |-> {}, r |-> {"r_cModel", "r_cModel_err"}],
    [ln |-> 479, cell |-> 14, k |-> "stmt", call |-> FALSE, a |-> "", w |-> {"ls_list"}, d |-> {}, r |-> {}],
    [ln |-> 480, cell |-> 14, k |-> "stmt", call |-> TRUE, a |-> "", w |-> {"i", "SNR"}, d |-> {}, r |-> {"fac", "ls_list"}],
    [ln |-> 483, cell |-> 14, k |-> "stmt", call |-> TRUE, a |-> "", w |-> {}, d |-> {}, r |-> {}],
    [ln |-> 484, cell |-> 14, k |-> "stmt", call |-> TRUE, a |-> "", w |-> {}, d |-> {}, r |-> {}],
    [ln |-> 486, cell |-> 14, k |-> "stmt", call |-> TRUE, a |-> "", w |-> {}, d |-> {}, r |-> {}],
    [ln |-> 488, cell |-> 14, k |-> "stmt", call |-> TRUE, a |-> "", w |-> {}, d |-> {}, r |-> {}],
    [ln |-> 489, cell |-> 14, k |-> "stmt", call |-> TRUE, a |-> "", w |-> {}, d |-> {}, r |-> {}],
    [ln |-> 491, cell |-> 14, k |-> "stmt", call |-> TRUE, a |-> "", w |-> {"_"}, d |-> {}, r |-> {}],
    [ln |-> 517, cell |-> 15, k |-> "stmt", call |-> FALSE, a |-> "", w |-> {"ra"}, d |-> {}, r |-> {"data_s"}],
    [ln |-> 518, cell |-> 15, k |-> "stmt", call |-> FALSE, a |-> "", w |-> {"dec"}, d |-> {}, r |-> {"data_s"}],
    [ln |-> 520, cell |-> 15, k |-> "stmt", call |-> TRUE, a |-> "", w |-> {}, d |-> {}, r |-> {}],
    [ln |-> 521, cell |-> 15, k |-> "stmt", call |-> TRUE, a |-> "", w |-> {}, d |-> {}, r |-> {"ra", "sel_rs", "dec"}],
    [ln |-> 523, cell |-> 15, k |-> "stmt", call |-> TRUE, a |-> "", w |-> {}, d |-> {}, r |-> {"ra", "sel_bg", "dec"}],
    [ln |-> 525, cell |-> 15, k |-> "stmt", call |-> TRUE, a |-> "", w |-> {}, d |-> {}, r |-> {}],
    [ln |-> 526, cell |-> 15, k |-> "stmt", call |-> TRUE, a |-> "", w |-> {}, d |-> {}, r |-> {}],
    [ln |-> 527, cell |-> 15, k |-> "stmt", call |-> TRUE, a |-> "", w |-> {}, d |-> {}, r |-> {}],
    [ln |-> 528, cell |-> 15, k |-> "stmt", call |-> TRUE, a |-> "", w |-> {"_"}, d |-> {}, r |-> {}],
    [ln |-> 554, cell |-> 16, k |-> "stmt", call |-> FALSE, a |-> "", w |-> {"config"}, d |-> {}, r |-> {}],
    [ln |-> 555, cell |-> 16, k |-> "stmt", call |-> FALSE, a |-> "", w |-> {"collections"}, d |-> {}, r |-> {}],
    [ln |-> 556, cell |-> 16, k |-> "stmt", call |-> TRUE, a |-> "", w |-> {"butler"}, d |-> {}, r |-> {"config", "collections"}],
    [ln |-> 558, cell |-> 16, k |-> "stmt", call |-> FALSE, a |-> "", w |-> {"datasetType"}, d |-> {}, r |-> {}],
    [ln |-> 559, cell |-> 16, k |-> "stmt", call |-> FALSE, a |-> "", w |-> {"dataId"}, d |-> {}, r |-> {}],
    [ln |-> 560, cell |-> 16, k |-> "butler_get", call |-> TRUE, a |-> "", w |-> {"coadd"}, d |-> {}, r |-> {"butler", "datasetType", "dataId"}],
    [ln |-> 570, cell |-> 17, k |-> "stmt", call |-> FALSE, a |-> "", w |-> {"x"}, d |-> {}, r |-> {"data_s"}],
    [ln |-> 571, cell |-> 17, k |-> "stmt", call |-> FALSE, a |-> "", w |-> {"y"}, d |-> {}, r |-> {"data_s"}],
    [ln |-> 572, cell |-> 17, k |-> "stmt", call |-> TRUE, a |-> "", w |-> {"fig"}, d |-> {}, r |-> {}],
    [ln |-> 573, cell |-> 17, k |-> "stmt", call |-> TRUE, a |-> "", w |-> {"display"}, d |-> {}, r |-> {"fig"}],
    [ln |-> 574, cell |-> 17, k |-> "stmt", call |-> TRUE, a |-> "", w |-> {}, d |-> {}, r |-> {"display"}],
    [ln |-> 575, cell |-> 17, k |-> "stmt", call |-> TRUE, a |-> "", w |-> {}, d |-> {}, r |-> {"display", "coadd"}],
    [ln |-> 576, cell |-> 17, k |-> "stmt", call |-> TRUE, a |-> "", w |-> {}, d |-> {}, r |-> {"x", "sel_rs", "y"}],
    [ln |-> 577, cell |-> 17, k |-> "stmt", call |-> TRUE, a |-> "", w |-> {}, d |-> {}, r |-> {}],
    [ln |-> 578, cell |-> 17, k |-> "stmt", call |-> TRUE, a |-> "", w |-> {}, d |-> {}, r |-> {}],
    [ln |-> 579, cell |-> 17, k |-> "stmt", call |-> TRUE, a |-> "", w |-> {}, d |-> {}, r |-> {}],
    [ln |-> 580, cell |-> 17, k |-> "stmt", call |-> TRUE, a |-> "", w |-> {}, d |-> {}, r |-> {}],
    [ln |-> 598, cell |-> 18, k |-> "del", call |-> FALSE, a |-> "", w |-> {}, d |-> {"coadd"}, r |-> {}],
    [ln |-> 628, cell |-> 19, k |-> "stmt", call |-> FALSE, a |-> "", w |-> {"e1"}, d |-> {}, r |-> {"data_s"}],
    [ln |-> 629, cell |-> 19, k |-> "stmt", call |-> FALSE, a |-> "", w |-> {"e2"}, d |-> {}, r |-> {"data_s"}],
    [ln |-> 631, cell |-> 19, k |-> "stmt", call |-> TRUE, a |-> "", w |-> {"coord0"}, d |-> {}, r |-> {"center_ra", "center_dec"}],
    [ln |-> 632, cell |-> 19, k |-> "stmt", call |-> TRUE, a |-> "", w |-> {"coord1"}, d |-> {}, r |-> {"ra", "dec"}],
    [ln |-> 634, cell |-> 19, k |-> "stmt", call |-> TRUE, a |-> "", w |-> {"position_angle"}, d |-> {}, r |-> {"coord0", "coord1"}],
    [ln |-> 636, cell |-> 19, k |-> "stmt", call |-> TRUE, a |-> "", w |-> {"e_t"}, d |-> {}, r |-> {"e1", "position_angle", "e2"}],
    [ln |-> 637, cell |-> 19, k |-> "stmt", call |-> TRUE, a |-> "", w |-> {"e_x"}, d |-> {}, r |-> {"e1", "position_angle", "e2"}],
    [ln |-> 639, cell |-> 19, k |-> "stmt", call |-> TRUE, a |-> "", w |-> {"r"}, d |-> {}, r |-> {"coord0", "coord1"}],
    [ln |-> 657, cell |-> 20, k |-> "stmt", call |-> TRUE, a |-> "", w |-> {"bins"}, d |-> {}, r |-> {}],
    [ln |-> 658, cell |-> 20, k |-> "stmt", call |-> FALSE, a |-> "", w |-> {"mid"}, d |-> {}, r |-> {"bins"}],
    [ln |-> 660, cell |-> 20, k |-> "stmt", call |-> TRUE, a |-> "", w |-> {}, d |-> {}, r |-> {}],
    [ln |-> 662, cell |-> 20, k |-> "stmt", call |-> TRUE, a |-> "", w |-> {"n_e_t", "_", "im"}, d |-> {}, r |-> {"e_t", "sel_bg", "bins"}],
    [ln |-> 664, cell |-> 20, k |-> "stmt", call |-> TRUE, a |-> "", w |-> {"n_e_x", "_", "im"}, d |-> {}, r |-> {"e_x", "sel_bg", "bins"}],
    [ln |-> 667, cell |-> 20, k |-> "stmt", call |-> TRUE, a |-> "", w |-> {}, d |-> {}, r |-> {"e_t", "sel_bg"}],
    [ln |-> 668, cell |-> 20, k |-> "stmt", call |-> TRUE, a |-> "", w |-> {}, d |-> {}, r |-> {"e_x", "sel_bg"}],
    [ln |-> 670, cell |-> 20, k |-> "stmt", call |-> TRUE, a |-> "", w |-> {}, d |-> {}, r |-> {}],
    [ln |-> 671, cell |-> 20, k |-> "stmt", call |-> TRUE, a |-> "", w |-> {}, d |-> {}, r |-> {}],
    [ln |-> 673, cell |-> 20, k |-> "stmt", call |-> TRUE, a |-> "", w |-> {"_"}, d |-> {}, r |-> {}],
    [ln |-> 699, cell |-> 21, k |-> "stmt", call |-> TRUE, a |-> "", w |-> {}, d |-> {}, r |-> {}],
    [ln |-> 700, cell |-> 21, k |-> "stmt", call |-> TRUE, a |-> "", w |-> {}, d |-> {}, r |-> {"mid", "n_e_t", "n_e_x"}],
    [ln |-> 701, cell |-> 21, k |-> "stmt", call |-> TRUE, a |-> "", w |-> {}, d |-> {}, r |-> {}],
    [ln |-> 702, cell |-> 21, k |-> "stmt", call |-> TRUE, a |-> "", w |-> {}, d |-> {}, r |-> {}],
    [ln |-> 703, cell |-> 21, k |-> "stmt", call |-> TRUE, a |-> "", w |-> {}, d |-> {}, r |-> {}],
    [ln |-> 735, cell |-> 22, k |-> "stmt", call |-> TRUE, a |-> "", w |-> {"r_max"}, d |-> {}, r |-> {"r"}],
    [ln |-> 736, cell |-> 22, k |-> "stmt", call |-> TRUE, a |-> "", w |-> {}, d |-> {}, r |-> {"r_max"}],
    [ln |-> 738, cell |-> 22, k |-> "stmt", call |-> TRUE, a |-> "", w |-> {"bins"}, d |-> {}, r |-> {"r_max"}],
    [ln |-> 739, cell |-> 22, k |-> "stmt", call |-> FALSE, a |-> "", w |-> {"mid"}, d |-> {}, r |-> {"bins"}],
    [ln |-> 741, cell |-> 22, k |-> "stmt", call |-> TRUE, a |-> "", w |-> {"e_t_mean", "_"}, d |-> {}, r |-> {"r", "sel_bg", "e_t", "bins"}],
    [ln |-> 742, cell |-> 22, k |-> "stmt", call |-> TRUE, a |-> "", w |-> {"e_x_mean", "_"}, d |-> {}, r |-> {"r", "sel_bg", "e_x", "bins"}],
    [ln |-> 744, cell |-> 22, k |-> "stmt", call |-> TRUE, a |-> "", w |-> {"e_t_std", "_"}, d |-> {}, r |-> {"r", "sel_bg", "e_t", "bins"}],
    [ln |-> 746, cell |-> 22, k |-> "stmt", call |-> TRUE, a |-> "", w |-> {"e_x_std", "_"}, d |-> {}, r |-> {"r", "sel_bg", "e_x", "bins"}],
    [ln |-> 749, cell |-> 22, k |-> "stmt", call |-> TRUE, a |-> "", w |-> {"count", "_"}, d |-> {}, r |-> {"r", "sel_bg", "e_t", "bins"}],
    [ln |-> 752, cell |-> 22, k |-> "stmt", call |-> FALSE, a |-> "", w |-> {"e_t_err"}, d |-> {}, r |-> {"e_t_std", "count"}],
    [ln |-> 753, cell |-> 22, k |-> "stmt", call |-> FALSE, a |-> "", w |-> {"e_x_err"}, d |-> {}, r |-> {"e_x_std", "count"}],
    [ln |-> 755, cell |-> 22, k |-> "stmt", call |-> TRUE, a |-> "", w |-> {}, d |-> {}, r |-> {}],
    [ln |-> 756, cell |-> 22, k |-> "stmt", call |-> TRUE, a |-> "", w |-> {}, d |-> {}, r |-> {"mid", "e_t_mean", "e_t_err"}],
    [ln |-> 757, cell |-> 22, k |-> "stmt", call |-> TRUE, a |-> "", w |-> {}, d |-> {}, r |-> {"mid", "r_max", "e_x_mean", "e_x_err"}],
    [ln |-> 758, cell |-> 22, k |-> "stmt", call |-> TRUE, a |-> "", w |-> {}, d |-> {}, r |-> {}],
    [ln |-> 759, cell |-> 22, k |-> "stmt", call |-> TRUE, a |-> "", w |-> {}, d |-> {}, r |-> {}],
    [ln |-> 760, cell |-> 22, k |-> "stmt", call |-> TRUE, a |-> "", w |-> {}, d |-> {}, r |-> {}],
    [ln |-> 762, cell |-> 22, k |-> "stmt", call |-> TRUE, a |-> "", w |-> {"_"}, d |-> {}, r |-> {}],
    [ln |-> 792, cell |-> 23, k |-> "stmt", call |-> TRUE, a |-> "", w |-> {"inds"}, d |-> {}, r |-> {"r", "sel_bg", "bins"}],
    [ln |-> 794, cell |-> 23, k |-> "stmt", call |-> FALSE, a |-> "", w |-> {"e_t_mean_list"}, d |-> {}, r |-> {}],
    [ln |-> 795, cell |-> 23, k |-> "stmt", call |-> FALSE, a |-> "", w |-> {"e_t_lerr_list"}, d |-> {}, r |-> {}],
    [ln |-> 796, cell |-> 23, k |-> "stmt", call |-> FALSE, a |-> "", w |-> {"e_t_herr_list"}, d |-> {}, r |-> {}],
    [ln |-> 798, cell |-> 23, k |-> "stmt", call |-> FALSE, a |-> "", w |-> {"e_x_mean_list"}, d |-> {}, r |-> {}],
    [ln |-> 799, cell |-> 23, k |-> "stmt", call |-> FALSE, a |-> "", w |-> {"e_x_lerr_list"}, d |-> {}, r |-> {}],
    [ln |-> 800, cell |-> 23, k |-> "stmt", call |-> FALSE, a |-> "", w |-> {"e_x_herr_list"}, d |-> {}, r |-> {}],
    [ln |-> 802, cell |-> 23, k |-> "stmt", call |-> TRUE, a |-> "", w |-> {"i", "sel", "mean", "lerr", "herr"}, d |-> {},
     r |-> {"bins", "inds", "get_stat", "e_t", "sel_bg", "e_t_mean_list", "e_t_lerr_list", "e_t_herr_list", "e_x", "e_x_mean_list", "e_x_lerr_list", "e_x_herr_list"}],
    [ln |-> 822, cell |-> 24, k |-> "stmt", call |-> TRUE, a |-> "", w |-> {}, d |-> {}, r |-> {}],
    [ln |-> 823, cell |-> 24, k |-> "stmt", call |-> TRUE, a |-> "", w |-> {}, d |-> {},
     r |-> {"mid", "e_t_mean_list", "e_t_lerr_list", "e_t_herr_list"}],
    [ln |-> 825, cell |-> 24, k |-> "stmt", call |-> TRUE, a |-> "", w |-> {}, d |-> {},
     r |-> {"mid", "r_max", "e_x_mean_list", "e_x_lerr_list", "e_x_herr_list"}],
    [ln |-> 827, cell |-> 24, k |-> "stmt", call |-> TRUE, a |-> "", w |-> {}, d |-> {}, r |-> {}],
    [ln |-> 828, cell |-> 24, k |-> "stmt", call |-> TRUE, a |-> "", w |-> {}, d |-> {}, r |-> {}],
    [ln |-> 829, cell |-> 24, k |-> "stmt", call |-> TRUE, a |-> "", w |-> {}, d |-> {}, r |-> {}],
    [ln |-> 830, cell |-> 24, k |-> "stmt", call |-> TRUE, a |-> "", w |-> {"_"}, d |-> {}, r |-> {}]
  >>

NbButler ==
  <<
    [ln |-> 99, cell |-> 1, k |-> "import", call |-> FALSE, a |-> "", w |-> {}, d |-> {}, r |-> {}],
    [ln |-> 100, cell |-> 1, k |-> "import", call |-> FALSE, a |-> "", w |-> {}, d |-> {}, r |-> {}],
    [ln |-> 101, cell |-> 1, k |-> "import", call |-> FALSE, a |-> "", w |-> {}, d |-> {}, r |-> {}],
    [ln |-> 104, cell |-> 1, k |-> "import", call |-> FALSE, a |-> "", w |-> {}, d |-> {}, r |-> {}],
    [ln |-> 105, cell |-> 1, k |-> "import", call |-> FALSE, a |-> "", w |-> {}, d |-> {}, r |-> {}],
    [ln |-> 108, cell |-> 1, k |-> "stmt", call |-> FALSE, a |-> "", w |-> {}, d |-> {}, r |-> {}],
    [ln |-> 109, cell |-> 1, k |-> "stmt", call |-> TRUE, a |-> "", w |-> {}, d |-> {}, r |-> {}],
    [ln |-> 139, cell |-> 2, k |-> "stmt", call |-> FALSE, a |-> "", w |-> {"config"}, d |-> {}, r |-> {}],
    [ln |-> 140, cell |-> 2, k |-> "stmt", call |-> FALSE, a |-> "", w |-> {"collections"}, d |-> {}, r |-> {}],
    [ln |-> 141, cell |-> 2, k |-> "stmt", call |-> TRUE, a |-> "", w |-> {"butler"}, d |-> {}, r |-> {"config", "collections"}],
    [ln |-> 192, cell |-> 4, k |-> "stmt", call |-> FALSE, a |-> "", w |-> {"datasetType"}, d |-> {}, r |-> {}],
    [ln |-> 193, cell |-> 4, k |-> "stmt", call |-> FALSE, a |-> "", w |-> {"dataId"}, d |-> {}, r |-> {}],
    [ln |-> 194, cell |-> 4, k |-> "butler_get", call |-> TRUE, a |-> "", w |-> {"calexp"}, d |-> {}, r |-> {"butler", "datasetType", "dataId"}],
    [ln |-> 212, cell |-> 5, k |-> "stmt", call |-> TRUE, a |-> "", w |-> {}, d |-> {}, r |-> {"butler", "datasetType"}],
    [ln |-> 230, cell |-> 6, k |-> "stmt", call |-> TRUE, a |-> "", w |-> {"fig"}, d |-> {}, r |-> {}],
    [ln |-> 231, cell |-> 6, k |-> "stmt", call |-> TRUE, a |-> "", w |-> {"display"}, d |-> {}, r |-> {"fig"}],
    [ln |-> 232, cell |-> 6, k |-> "stmt", call |-> TRUE, a |-> "", w |-> {}, d |-> {}, r |-> {"display"}],
    [ln |-> 233, cell |-> 6, k |-> "stmt", call |-> TRUE, a |-> "", w |-> {}, d |-> {}, r |-> {"display", "calexp"}],
    [ln |-> 234, cell |-> 6, k |-> "stmt", call |-> TRUE, a |-> "", w |-> {}, d |-> {}, r |-> {}],
    [ln |-> 254, cell |-> 7, k |-> "del", call |-> FALSE, a |-> "", w |-> {}, d |-> {"calexp"}, r |-> {}],
    [ln |-> 255, cell |-> 7, k |-> "stmt", call |-> TRUE, a |-> "", w |-> {}, d |-> {}, r |-> {}],
    [ln |-> 278, cell |-> 8, k |-> "stmt", call |-> FALSE, a |-> "", w |-> {"datasetType"}, d |-> {}, r |-> {}],
    [ln |-> 279, cell |-> 8, k |-> "stmt", call |-> FALSE, a |-> "", w |-> {"dataId"}, d |-> {}, r |-> {}],
    [ln |-> 280, cell |-> 8, k |-> "butler_get", call |-> TRUE, a |-> "", w |-> {"diffexp"}, d |-> {}, r |-> {"butler", "datasetType", "dataId"}],
    [ln |-> 298, cell |-> 9, k |-> "stmt", call |-> TRUE, a |-> "", w |-> {"fig"}, d |-> {}, r |-> {}],
    [ln |-> 299, cell |-> 9, k |-> "stmt", call |-> TRUE, a |-> "", w |-> {"display"}, d |-> {}, r |-> {"fig"}],
    [ln |-> 300, cell |-> 9, k |-> "stmt", call |-> TRUE, a |-> "", w |-> {}, d |-> {}, r |-> {"display"}],
    [ln |-> 301, cell |-> 9, k |-> "stmt", call |-> TRUE, a |-> "", w |-> {}, d |-> {}, r |-> {"display", "diffexp"}],
    [ln |-> 302, cell |-> 9, k |-> "stmt", call |-> TRUE, a |-> "", w |-> {}, d |-> {}, r |-> {}],
    [ln |-> 323, cell |-> 10, k |-> "del", call |-> FALSE, a |-> "", w |-> {}, d |-> {"diffexp"}, r |-> {}],
    [ln |-> 324, cell |-> 10, k |-> "stmt", call |-> TRUE, a |-> "", w |-> {}, d |-> {}, r |-> {}],
    [ln |-> 347, cell |-> 11, k |-> "stmt", call |-> FALSE, a |-> "", w |-> {"datasetType"}, d |-> {}, r |-> {}],
    [ln |-> 348, cell |-> 11, k |-> "stmt", call |-> FALSE, a |-> "", w |-> {"dataId"}, d |-> {}, r |-> {}],
    [ln |-> 349, cell |-> 11, k |-> "butler_get", call |-> TRUE, a |-> "", w |-> {"coadd"}, d |-> {}, r |-> {"butler", "datasetType", "dataId"}],
    [ln |-> 367, cell |-> 12, k |-> "stmt", call |-> TRUE, a |-> "", w |-> {"fig"}, d |-> {}, r |-> {}],
    [ln |-> 368, cell |-> 12, k |-> "stmt", call |-> TRUE, a |-> "", w |-> {"display"}, d |-> {}, r |-> {"fig"}],
    [ln |-> 369, cell |-> 12, k |-> "stmt", call |-> TRUE, a |-> "", w |-> {}, d |-> {}, r |-> {"display"}],
    [ln |-> 370, cell |-> 12, k |-> "stmt", call |-> TRUE, a |-> "", w |-> {}, d |-> {}, r |-> {"display", "coadd"}],
    [ln |-> 371, cell |-> 12, k |-> "stmt", call |-> TRUE, a |-> "", w |-> {}, d |-> {}, r |-> {}],
    [ln |-> 393, cell |-> 13, k |-> "del", call |-> FALSE, a |-> "", w |-> {}, d |-> {"coadd"}, r |-> {}],
    [ln |-> 394, cell |-> 13, k |-> "stmt", call |-> TRUE, a |-> "", w |-> {}, d |-> {}, r |-> {}],
    [ln |-> 430, cell |-> 14, k |-> "stmt", call |-> FALSE, a |-> "", w |-> {"datasetType"}, d |-> {}, r |-> {}],
    [ln |-> 431, cell |-> 14, k |-> "stmt", call |-> FALSE, a |-> "", w |-> {"dataId"}, d |-> {}, r |-> {}],
    [ln |-> 432, cell |-> 14, k |-> "butler_get", call |-> TRUE, a |-> "", w |-> {"src"}, d |-> {}, r |-> {"butler", "datasetType", "dataId"}],
    [ln |-> 433, cell |-> 14, k |-> "stmt", call |-> TRUE, a |-> "", w |-> {}, d |-> {}, r |-> {"src"}],
    [ln |-> 451, cell |-> 15, k |-> "stmt", call |-> FALSE, a |-> "", w |-> {}, d |-> {}, r |-> {"src"}],
    [ln |-> 469, cell |-> 16, k |-> "del", call |-> FALSE, a |-> "", w |-> {}, d |-> {"src"}, r |-> {}],
    [ln |-> 470, cell |-> 16, k |-> "stmt", call |-> TRUE, a |-> "", w |-> {}, d |-> {}, r |-> {}],
    [ln |-> 495, cell |-> 17, k |-> "stmt", call |-> FALSE, a |-> "", w |-> {"datasetType"}, d |-> {}, r |-> {}],
    [ln |-> 496, cell |-> 17, k |-> "stmt", call |-> FALSE, a |-> "", w |-> {"dataId"}, d |-> {}, r |-> {}],
    [ln |-> 497, cell |-> 17, k |-> "butler_get", call |-> TRUE, a |-> "", w |-> {"dia_src"}, d |-> {}, r |-> {"butler", "datasetType", "dataId"}],
    [ln |-> 498, cell |-> 17, k |-> "stmt", call |-> TRUE, a |-> "", w |-> {}, d |-> {}, r |-> {"dia_src"}],
    [ln |-> 516, cell |-> 18, k |-> "stmt", call |-> FALSE, a |-> "", w |-> {}, d |-> {}, r |-> {"dia_src"}],
    [ln |-> 534, cell |-> 19, k |-> "stmt", call |-> FALSE, a |-> "", w |-> {"dataId"}, d |-> {}, r |-> {}],
    [ln |-> 535, cell |-> 19, k |-> "stmt", call |-> TRUE, a |-> "", w |-> {"det_string"}, d |-> {}, r |-> {"dataId"}],
    [ln |-> 536, cell |-> 19, k |-> "stmt", call |-> TRUE, a |-> "", w |-> {"ccd_visit_id"}, d |-> {}, r |-> {"dataId", "det_string"}],
    [ln |-> 537, cell |-> 19, k |-> "stmt", call |-> FALSE, a |-> "", w |-> {"selection"}, d |-> {}, r |-> {"dia_src", "ccd_visit_id"}],
    [ln |-> 538, cell |-> 19, k |-> "stmt", call |-> FALSE, a |-> "", w |-> {"dia_src_ccd"}, d |-> {}, r |-> {"dia_src", "selection"}],
    [ln |-> 539, cell |-> 19, k |-> "stmt", call |-> TRUE, a |-> "", w |-> {}, d |-> {}, r |-> {"dia_src_ccd", "dataId"}],
    [ln |-> 557, cell |-> 20, k |-> "stmt", call |-> FALSE, a |-> "", w |-> {}, d |-> {}, r |-> {"dia_src_ccd"}],
    [ln |-> 575, cell |-> 21, k |-> "del", call |-> FALSE, a |-> "", w |-> {}, d |-> {"dia_src", "selection", "dia_src_ccd"}, r |-> {}],
    [ln |-> 576, cell |-> 21, k |-> "stmt", call |-> TRUE, a |-> "", w |-> {}, d |-> {}, r |-> {}],
    [ln |-> 599, cell |-> 22, k |-> "stmt", call |-> FALSE, a |-> "", w |-> {"datasetType"}, d |-> {}, r |-> {}],
    [ln |-> 600, cell |-> 22, k |-> "stmt", call |-> FALSE, a |-> "", w |-> {"dataId"}, d |-> {}, r |-> {}],
    [ln |-> 601, cell |-> 22, k |-> "butler_get", call |-> TRUE, a |-> "", w |-> {"obj"}, d |-> {}, r |-> {"butler", "datasetType", "dataId"}],
    [ln |-> 602, cell |-> 22, k |-> "stmt", call |-> TRUE, a |-> "", w |-> {}, d |-> {}, r |-> {"obj"}],
    [ln |-> 613, cell |-> 23, k |-> "stmt", call |-> FALSE, a |-> "", w |-> {}, d |-> {}, r |-> {"obj"}],
    [ln |-> 624, cell |-> 24, k |-> "del", call |-> FALSE, a |-> "", w |-> {}, d |-> {"obj"}, r |-> {}],
    [ln |-> 625, cell |-> 24, k |-> "stmt", call |-> TRUE, a |-> "", w |-> {}, d |-> {}, r |-> {}],
    [ln |-> 648, cell |-> 25, k |-> "stmt", call |-> FALSE, a |-> "", w |-> {"datasetType"}, d |-> {}, r |-> {}],
    [ln |-> 649, cell |-> 25, k |-> "stmt", call |-> FALSE, a |-> "", w |-> {"dataId"}, d |-> {}, r |-> {}],
    [ln |-> 650, cell |-> 25, k |-> "butler_get", call |-> TRUE, a |-> "", w |-> {"dia_obj"}, d |-> {}, r |-> {"butler", "datasetType", "dataId"}],
    [ln |-> 651, cell |-> 25, k |-> "stmt", call |-> TRUE, a |-> "", w |-> {}, d |-> {}, r |-> {"dia_obj"}],
    [ln |-> 662, cell |-> 26, k |-> "stmt", call |-> FALSE, a |-> "", w |-> {}, d |-> {}, r |-> {"dia_obj"}],
    [ln |-> 673, cell |-> 27, k |-> "del", call |-> FALSE, a |-> "", w |-> {}, d |-> {"dia_obj"}, r |-> {}],
    [ln |-> 674, cell |-> 27, k |-> "stmt", call |-> TRUE, a |-> "", w |-> {}, d |-> {}, r |-> {}],
    [ln |-> 754, cell |-> 31, k |-> "stmt", call |-> FALSE, a |-> "", w |-> {"datasetType"}, d |-> {}, r |-> {}],
    [ln |-> 755, cell |-> 31, k |-> "stmt", call |-> FALSE, a |-> "", w |-> {"dataId"}, d |-> {}, r |-> {}],
    [ln |-> 756, cell |-> 31, k |-> "butler_get", call |-> TRUE, a |-> "", w |-> {"dia_forced_src"}, d |-> {},
     r |-> {"butler", "datasetType", "dataId"}],
    [ln |-> 757, cell |-> 31, k |-> "stmt", call |-> TRUE, a |-> "", w |-> {}, d |-> {}, r |-> {"dia_forced_src"}],
    [ln |-> 768, cell |-> 32, k |-> "stmt", call |-> FALSE, a |-> "", w |-> {}, d |-> {}, r |-> {"dia_forced_src"}],
    [ln |-> 779, cell |-> 33, k |-> "del", call |-> FALSE, a |-> "", w |-> {}, d |-> {"dia_forced_src"}, r |-> {}],
    [ln |-> 780, cell |-> 33, k |-> "stmt", call |-> TRUE, a |-> "", w |-> {}, d |-> {}, r |-> {}]
  >>

NbUserpkg ==
  <<
    [ln |-> 202, cell |-> 1, k |-> "import", call |-> FALSE, a |-> "", w |-> {}, d |-> {}, r |-> {}],
    [ln |-> 203, cell |-> 1, k |-> "stmt", call |-> TRUE, a |-> "", w |-> {}, d |-> {}, r |-> {}],
    [ln |-> 223, cell |-> 2, k |-> "import", call |-> FALSE, a |-> "", w |-> {}, d |-> {}, r |-> {}],
    [ln |-> 409, cell |-> 3, k |-> "import", call |-> FALSE, a |-> "", w |-> {}, d |-> {}, r |-> {}],
    [ln |-> 410, cell |-> 3, k |-> "stmt", call |-> TRUE, a |-> "", w |-> {}, d |-> {}, r |-> {}],
    [ln |-> 429, cell |-> 4, k |-> "import", call |-> FALSE, a |-> "", w |-> {}, d |-> {}, r |-> {}]
  >>
Notebooks == {"anomaly", "intro", "inject", "maps", "viz", "wl", "butler", "userpkg"}

\* program p with every del moved one statement up
DelEarly(p) ==
  [i \in 1..Len(p) |->
     IF i < Len(p) /\ p[i + 1].k = "del" /\ p[i].k # "del" THEN p[i + 1]
     ELSE IF i > 1 /\ p[i].k = "del" /\ p[i - 1].k # "del" THEN p[i - 1]
     ELSE p[i]]

\* variant of Prog: every del is executed one statement early
ProgDelEarly(b) ==
  DelEarly(CASE b = "anomaly" -> NbAnomaly
             [] b = "intro"   -> NbIntro
             [] b = "inject"  -> NbInject
             [] b = "maps"    -> NbMaps
             [] b = "viz"     -> NbViz
             [] b = "wl"      -> NbWl
             [] b = "butler"  -> NbButler
             [] b = "userpkg" -> NbUserpkg)

\* the statements of notebook b, in the order a run executes them
Prog(b) ==
  CASE b = "anomaly" -> NbAnomaly
    [] b = "intro"   -> NbIntro
    [] b = "inject"  -> NbInject
    [] b = "maps"    -> NbMaps
    [] b = "viz"     -> NbViz
    [] b = "wl"      -> NbWl
    [] b = "butler"  -> NbButler
    [] b = "userpkg" -> NbUserpkg

(***************************************************************************)
(* Files on the local disk that the notebooks name.                        *)
(***************************************************************************)
outputFile == "~/nb06a_plot1.html"
stamp_rotated == "/home/<user>/stamp_rotated.fits"
stamp_orig == "/rubin/cst_repos/tutorial-notebooks-data/data/PGC_038749_I_g_bbl2011.fits"
FileNames == {outputFile, stamp_rotated, stamp_orig}

\* the value of a pixel that holds no data
NaN == -1
\* pixel values of the stamp image shipped with the tutorial data
StampPix == [i \in 1..NPix |-> 1]
\* pixel values a calexp can hold
CalexpVals == {0, 1}

ExpNames == {"calexp_g", "stamp_img_orig", "stamp_img_rotated", "injected_output",
             "injected_exposure", "plot_injected_calexp", "scienceExposure"}
TableNames == {"my_injection_catalog_galaxies", "my_injection_catalog_stars",
               "my_injection_catalog_stamp", "my_injection_catalog_rotated_stamp",
               "inject_cat"}

VARIABLES
  nb,         \* the notebook the kernel is running
  pc,         \* index in Prog(nb) of the statement to execute next
  status,     \* "running", "blocked" (in a synchronous query), "failed", "done"
  bound,      \* names bound in the kernel namespace
  raisedAt,   \* line of the last raise, 0 when nothing was raised
  asserted,   \* TRUE once "assert service is not None" has passed
  service,    \* the TAP handle: "unset", "null" or "ok"
  nsent,      \* number of queries sent to the TAP service
  job,        \* the asynchronous TAP job of the weak-lensing notebook
  n,          \* the counter n of the light-curve loop
  files,      \* content of the files of FileNames ("absent" when missing)
  written,    \* names of the files written so far
  heap,       \* the image objects, in order of creation
  ref,        \* which image object each name of ExpNames is bound to (0: none)
  tables,     \* the injection catalogs
  stampRead,  \* the stamp files read by the injection task, with their content
  shown,      \* the images displayed so far
  calexp0,    \* the calexp as butler.get returned it
  fpc,        \* position in the computation followed on its own ("idle": none)
  scores,     \* ifo.score_samples(sample), one score per row of df
  idx,        \* the array idx of the anomaly notebook (row numbers from 0)
  picked,     \* the row idx[anom_ind], -1 before it is taken
  diasrc,     \* the table diasrc of the anomaly notebook
  ind_mm,     \* the dictionary ind_mm, -1 for a key not yet set
  cutouts,    \* the rows the cutout loop has worked on, in order
  cpc,        \* position in the ccdVisitId computation ("idle": none)
  dataId,     \* the dataId of the Butler notebook: visit and detector
  ccd_visit_id, \* the value built from dataId, -1 before it is built
  split,      \* visit and detector split from ccdvisitid, -1 before the split
  tpc,        \* position in the cells of the tapped image ("idle": none)
  image,      \* calexp.image.array: rows of pixels, row 0 first
  scaledImage, \* the array scaledImage of the visualization notebook
  img,        \* the hv.Image: its data array and its bounds
  posxy,      \* the Tap stream: x and y in half pixels
  printed,    \* the pixels whose scaled and raw values were printed
  epc,        \* position in the selection cells of the weak-lensing notebook
  data,       \* the object table data of the weak-lensing notebook
  sel,        \* the boolean array sel, one entry per row of data
  fraction,   \* the printed fraction: numerator and denominator
  gpc,        \* position in the call of get_stat ("idle": no call)
  args,       \* the arguments of get_stat: data, statistic, confidence_level
  res,        \* res.confidence_interval: its lower and upper bound
  ret         \* the values get_stat returns: stat, lerr, herr

kernelVars == <<nb, pc, status, bound, raisedAt, asserted>>
tapVars    == <<service, nsent, job, n>>
diskVars   == <<files, written>>
imgVars    == <<heap, ref, tables, stampRead, shown, calexp0>>
fnVars     == <<fpc, scores, idx, picked, diasrc, ind_mm, cutouts>>
ccdVars    == <<cpc, dataId, ccd_visit_id, split>>
vizVars    == <<tpc, image, scaledImage, img, posxy, printed>>
selVars    == <<epc, data, sel, fraction>>
statVars   == <<gpc, args, res, ret>>
calcVars   == <<ccdVars, vizVars, selVars, statVars>>
nbVars     == <<kernelVars, tapVars, diskVars, imgVars>>
vars       == <<kernelVars, tapVars, diskVars, imgVars, fnVars, calcVars>>

NoJob == [phase |-> "NONE", fetched |-> FALSE, deleted |-> FALSE]
NoImage == [pix |-> <<>>, inj |-> 0]

NoFile == [there |-> FALSE, pix |-> <<>>]
NoIndMM == [ind_max |-> -1, ind_min |-> -1]

\* no computation is followed on its own
FnIdle ==
  /\ fpc = "idle"
  /\ scores = <<>>
  /\ idx = <<>>
  /\ picked = -1
  /\ diasrc = <<>>
  /\ ind_mm = NoIndMM
  /\ cutouts = <<>>

NoSplit == [visit |-> -1, detector |-> -1]

\* no ccdVisitId is being built
CcdIdle ==
  /\ cpc = "idle"
  /\ dataId = NoSplit
  /\ ccd_visit_id = -1
  /\ split = NoSplit

NoImg == [data |-> <<>>, bounds |-> <<0, 0, 0, 0>>]
NoPos == [x |-> -1, y |-> -1]
NoPixel == [row |-> -1, col |-> -1, scaled |-> FALSE]
NoPrint == [scaled |-> NoPixel, raw |-> NoPixel]

\* no image is being displayed
VizIdle ==
  /\ tpc = "idle"
  /\ image = <<>>
  /\ scaledImage = <<>>
  /\ img = NoImg
  /\ posxy = NoPos
  /\ printed = NoPrint

NoFraction == [num |-> -1, den |-> -1]

\* no selection is being made
SelIdle ==
  /\ epc = "idle"
  /\ data = <<>>
  /\ sel = <<>>
  /\ fraction = NoFraction

\* a number that need not be whole: numerator and denominator (> 0)
Whole(v) == <<v, 1>>
NoArgs == [data |-> <<>>, statistic |-> "none", confidence_level |-> 0]
NoRes == [low |-> Whole(0), high |-> Whole(0)]
NoRet == [stat |-> Whole(0), lerr |-> Whole(0), herr |-> Whole(0)]

\* get_stat is not being called
StatIdle ==
  /\ gpc = "idle"
  /\ args = NoArgs
  /\ res = NoRes
  /\ ret = NoRet

CalcIdle == CcdIdle /\ VizIdle /\ SelIdle /\ StatIdle

\* the kernel of notebook b before its first statement, on an untouched disk
NbStart(b) ==
  /\ nb = b
  /\ pc = 1
  /\ status = "running"
  /\ bound = {}
  /\ raisedAt = 0
  /\ asserted = FALSE
  /\ service = "unset"
  /\ nsent = 0
  /\ job = NoJob
  /\ n = 0
  /\ files = [f \in FileNames |->
                IF f = stamp_orig THEN [there |-> TRUE, pix |-> StampPix] ELSE NoFile]
  /\ written = {}
  /\ heap = <<>>
  /\ ref = [x \in ExpNames |-> 0]
  /\ tables = [t \in TableNames |-> <<>>]
  /\ stampRead = {}
  /\ shown = {}
  /\ calexp0 = NoImage

Init == (\E b \in Notebooks : NbStart(b)) /\ FnIdle /\ CalcIdle

(***************************************************************************)
(* The kernel.                                                             *)
(***************************************************************************)
Running == status = "running" /\ pc <= Len(Prog(nb))
Cur == Prog(nb)[pc]
AtKind(K) == Running /\ Cur.k \in K

\* variant of Bind: del leaves the names bound
BindKeep(s) == bound \cup s.w

\* the namespace after statement s has completed
Bind(s) == (bound \cup s.w) \ s.d

\* statement Cur completes
Advance ==
  /\ pc' = pc + 1
  /\ bound' = Bind(Cur)
  /\ UNCHANGED <<nb, raisedAt, asserted>>

\* statement Cur raises at line l and nothing catches it
Uncaught(l) ==
  /\ status' = "failed"
  /\ raisedAt' = l
  /\ UNCHANGED <<nb, pc, bound, asserted>>

\* kinds of statement with no effect beyond the namespace
PlainKinds == {"stmt", "import", "def", "butler_get"}

ExecStmt ==
  /\ AtKind(PlainKinds)
  /\ Advance
  /\ UNCHANGED <<status, tapVars, diskVars, imgVars, fnVars, calcVars>>

\* variant of Guarded: the try also spans the butler.get that follows it in
\* the cell (line 945)
GuardedWide(s) == s.k = "try" \/ s.ln = 945

\* the statements that stand inside a try whose except clause passes
\* (inject notebook, lines 936-939)
Guarded(s) == s.k = "try"

\* the line that raises when statement s fails: for a try, its body
RaiseLine(s) == IF s.k = "try" THEN s.ln + 1 ELSE s.ln

\* a call of the statement raises and nothing catches it
Raise ==
  /\ Running
  /\ Cur.call
  /\ ~Guarded(Cur)
  /\ Uncaught(RaiseLine(Cur))
  /\ UNCHANGED <<tapVars, diskVars, imgVars, fnVars, calcVars>>

\* del: removes the names; a name that is not bound is a NameError
Del ==
  /\ AtKind({"del"})
  /\ IF Cur.d \subseteq bound
       THEN Advance /\ UNCHANGED status
       ELSE Uncaught(Cur.ln)
  /\ UNCHANGED <<tapVars, diskVars, imgVars, fnVars, calcVars>>

\* try: <body>: the body completes
TryOk ==
  /\ AtKind({"try"})
  /\ Advance
  /\ UNCHANGED <<status, tapVars, diskVars, imgVars, fnVars, calcVars>>

\* except: pass: the body raises, the failure is dropped and the run goes on
\* with the statement after the try
TryCaught ==
  /\ Running
  /\ Guarded(Cur)
  /\ raisedAt' = RaiseLine(Cur)
  /\ pc' = pc + 1
  /\ UNCHANGED <<nb, status, bound, asserted, tapVars, diskVars, imgVars, fnVars, calcVars>>

\* the last statement has completed
Finish ==
  /\ status = "running"
  /\ pc = Len(Prog(nb)) + 1
  /\ status' = "done"
  /\ UNCHANGED <<nb, pc, bound, raisedAt, asserted, tapVars, diskVars, imgVars, fnVars, calcVars>>

\* the user opens a notebook in a fresh kernel; the disk is kept
OpenNotebook ==
  /\ status \in {"done", "failed"}
  /\ nb' \in Notebooks
  /\ pc' = 1
  /\ status' = "running"
  /\ bound' = {}
  /\ raisedAt' = 0
  /\ asserted' = FALSE
  /\ service' = "unset"
  /\ nsent' = 0
  /\ job' = NoJob
  /\ n' = 0
  /\ heap' = <<>>
  /\ ref' = [x \in ExpNames |-> 0]
  /\ tables' = [t \in TableNames |-> <<>>]
  /\ stampRead' = {}
  /\ shown' = {}
  /\ calexp0' = NoImage
  /\ UNCHANGED <<diskVars, fnVars, calcVars>>

(***************************************************************************)
(* The TAP service.                                                        *)
(***************************************************************************)
\* service = get_tap_service("tap")
GetTapService ==
  /\ AtKind({"get_tap"})
  /\ service' \in {"null", "ok"}
  /\ Advance
  /\ UNCHANGED <<status, nsent, job, n, diskVars, imgVars, fnVars, calcVars>>

\* variant of IsNotNone: the handle is not tested
IsNotNoneSkipped(h) == TRUE

\* service is not None
IsNotNone(h) == h # "null"

\* assert service is not None
AssertService ==
  /\ AtKind({"assert_service"})
  /\ IF IsNotNone(service)
       THEN /\ pc' = pc + 1
            /\ bound' = Bind(Cur)
            /\ asserted' = TRUE
            /\ UNCHANGED <<nb, raisedAt, status>>
       ELSE Uncaught(Cur.ln)
  /\ UNCHANGED <<tapVars, diskVars, imgVars, fnVars, calcVars>>

\* number of passes of the light-curve loop: range(5) x range(4)
LoopIters == 5 * 4

\* n = 0
SetN ==
  /\ AtKind({"set_n"})
  /\ n' = 0
  /\ Advance
  /\ UNCHANGED <<status, service, nsent, job, diskVars, imgVars, fnVars, calcVars>>

\* service.search(...): the request goes out and the kernel waits for the
\* response; on a null handle the attribute lookup raises and nothing is sent
SearchSend ==
  /\ AtKind({"search", "search_loop"})
  /\ IF service = "ok"
       THEN /\ nsent' = nsent + 1
            /\ status' = "blocked"
            /\ UNCHANGED <<nb, pc, bound, raisedAt, asserted>>
       ELSE /\ Uncaught(Cur.ln)
            /\ UNCHANGED nsent
  /\ UNCHANGED <<service, job, n, diskVars, imgVars, fnVars, calcVars>>

\* the service answers a synchronous query with a result
SearchReturns ==
  /\ status = "blocked"
  /\ status' = "running"
  /\ IF Cur.k = "search_loop" /\ n + 1 < LoopIters
       THEN \* the pass ends with n += 1 and del results; the loop goes on
            /\ n' = n + 1
            /\ bound' = Bind(Cur)
            /\ UNCHANGED <<nb, pc, raisedAt, asserted>>
       ELSE /\ n' = IF Cur.k = "search_loop" THEN n + 1 ELSE n
            /\ Advance
  /\ UNCHANGED <<service, nsent, job, diskVars, imgVars, fnVars, calcVars>>

\* the service answers a synchronous query with an error: search raises
SearchFails ==
  /\ status = "blocked"
  /\ Uncaught(Cur.ln)
  /\ UNCHANGED <<tapVars, diskVars, imgVars, fnVars, calcVars>>

\* job = service.submit_job(query): the job is created on the service
SubmitJob ==
  /\ AtKind({"submit_job"})
  /\ IF service = "ok"
       THEN /\ nsent' = nsent + 1
            /\ job' = [NoJob EXCEPT !.phase = "PENDING"]
            /\ Advance
            /\ UNCHANGED status
       ELSE /\ Uncaught(Cur.ln)
            /\ UNCHANGED <<nsent, job>>
  /\ UNCHANGED <<service, n, diskVars, imgVars, fnVars, calcVars>>

\* job.run(): the service queues the job and the call returns
JobRun ==
  /\ AtKind({"job_run"})
  /\ job.phase = "PENDING"
  /\ job' = [job EXCEPT !.phase = "QUEUED"]
  /\ Advance
  /\ UNCHANGED <<status, service, nsent, n, diskVars, imgVars, fnVars, calcVars>>

\* the service works on the job
ServiceJobStep ==
  /\ \/ job.phase = "QUEUED" /\ job' = [job EXCEPT !.phase = "EXECUTING"]
     \/ /\ job.phase = "EXECUTING"
        /\ \E p \in {"COMPLETED", "ERROR", "ABORTED"} : job' = [job EXCEPT !.phase = p]
  /\ UNCHANGED <<kernelVars, service, nsent, n, diskVars, imgVars, fnVars, calcVars>>

\* variant of WaitPhases: the wait also ends on a job that is executing
WaitPhasesEarly == {"COMPLETED", "ERROR", "EXECUTING"}

\* job.wait(phases=['COMPLETED', 'ERROR'])
WaitPhases == {"COMPLETED", "ERROR"}

\* job.wait returns in one of the phases it was given; it raises when the job
\* has left the phases that can still lead there
JobWait ==
  /\ AtKind({"job_wait"})
  /\ \/ /\ job.phase \in WaitPhases
        /\ Advance
        /\ UNCHANGED status
     \/ /\ job.phase = "ABORTED"
        /\ Uncaught(Cur.ln)
  /\ UNCHANGED <<tapVars, diskVars, imgVars, fnVars, calcVars>>

\* variant of PhaseAsserted: the assertion accepts every phase that ends the wait
PhaseAssertedLoose(p) == p \in {"COMPLETED", "ERROR"}

\* assert job.phase == 'COMPLETED'
PhaseAsserted(p) == p = "COMPLETED"

AssertPhase ==
  /\ AtKind({"assert_phase"})
  /\ IF PhaseAsserted(job.phase)
       THEN Advance /\ UNCHANGED status
       ELSE Uncaught(Cur.ln)
  /\ UNCHANGED <<tapVars, diskVars, imgVars, fnVars, calcVars>>

\* data = job.fetch_result().to_table()
FetchResult ==
  /\ AtKind({"fetch"})
  /\ job' = [job EXCEPT !.fetched = TRUE]
  /\ Advance
  /\ UNCHANGED <<status, service, nsent, n, diskVars, imgVars, fnVars, calcVars>>

\* job.delete()
JobDelete ==
  /\ AtKind({"job_delete"})
  /\ job' = [job EXCEPT !.deleted = TRUE]
  /\ Advance
  /\ UNCHANGED <<status, service, nsent, n, diskVars, imgVars, fnVars, calcVars>>

(***************************************************************************)
(* The local disk.                                                         *)
(***************************************************************************)
\* variant of FilesWritten: the rotated stamp is written over the stamp it
\* was made from
FilesWrittenInPlace(k) ==
  CASE k = "hv_save"    -> {outputFile}
    [] k = "write_fits" -> {stamp_orig}
    [] OTHER            -> {}

\* the files a statement of kind k writes
FilesWritten(k) ==
  CASE k = "hv_save"    -> {outputFile}
    [] k = "write_fits" -> {stamp_rotated}
    [] OTHER            -> {}

\* hv.save(img, outputFile, backend='bokeh')
HvSave ==
  /\ AtKind({"hv_save"})
  /\ files' = [f \in FileNames |->
                 IF f \in FilesWritten(Cur.k) THEN [there |-> TRUE, pix |-> <<>>] ELSE files[f]]
  /\ written' = written \cup FilesWritten(Cur.k)
  /\ Advance
  /\ UNCHANGED <<status, tapVars, imgVars, fnVars, calcVars>>

\* stamp_img_rotated.writeFits(home_directory+'stamp_rotated.fits')
WriteFits ==
  /\ AtKind({"write_fits"})
  /\ files' = [f \in FileNames |->
                 IF f \in FilesWritten(Cur.k)
                   THEN [there |-> TRUE, pix |-> heap[ref["stamp_img_rotated"]].pix]
                   ELSE files[f]]
  /\ written' = written \cup FilesWritten(Cur.k)
  /\ Advance
  /\ UNCHANGED <<status, tapVars, imgVars, fnVars, calcVars>>

(***************************************************************************)
(* Images and injection catalogs (inject notebook).                        *)
(***************************************************************************)
\* a new image object obj is created and bound to name x
NewImage(x, obj) ==
  /\ heap' = Append(heap, obj)
  /\ ref' = [ref EXCEPT ![x] = Len(heap) + 1]

\* calexp_g = butler.get('calexp', dataId=dataId_g)
GetCalexp ==
  /\ AtKind({"get_calexp"})
  /\ \E p \in [1..NPix -> CalexpVals] :
       /\ NewImage("calexp_g", [pix |-> p, inj |-> 0])
       /\ calexp0' = [pix |-> p, inj |-> 0]
  /\ Advance
  /\ UNCHANGED <<status, tapVars, diskVars, tables, stampRead, shown, fnVars, calcVars>>

\* stamp_img_orig = afwImage.ExposureF.readFits(stamp_path + ...)
ReadFits ==
  /\ AtKind({"read_fits"})
  /\ IF files[stamp_orig].there
       THEN /\ NewImage("stamp_img_orig", [pix |-> files[stamp_orig].pix, inj |-> 0])
            /\ Advance
            /\ UNCHANGED status
       ELSE /\ Uncaught(Cur.ln)
            /\ UNCHANGED <<heap, ref>>
  /\ UNCHANGED <<tapVars, diskVars, tables, stampRead, shown, calexp0, fnVars, calcVars>>

\* rotate_exposure: the warped copy has no data (NaN) where the rotated
\* frame falls outside the input, and resampled values elsewhere
rotate_exposure(pix) == [1..Len(pix) -> {NaN, 0, 1}]

\* stamp_img_rotated = rotate_exposure(stamp_img_orig, rotation_angle)
Rotate ==
  /\ AtKind({"rotate"})
  /\ \E p \in rotate_exposure(heap[ref["stamp_img_orig"]].pix) :
       NewImage("stamp_img_rotated", [pix |-> p, inj |-> 0])
  /\ Advance
  /\ UNCHANGED <<status, tapVars, diskVars, tables, stampRead, shown, calexp0, fnVars, calcVars>>

\* variant of NanToZero: the pixels are left as they are
NanToZeroKeep(pix) == pix

\* array[np.where(np.isnan(array))] = 0.0
NanToZero(pix) == [i \in 1..Len(pix) |-> IF pix[i] = NaN THEN 0 ELSE pix[i]]

\* the replacement edits the image of stamp_img_rotated in place
NanReplace ==
  /\ AtKind({"nan_replace"})
  /\ heap' = [heap EXCEPT ![ref["stamp_img_rotated"]].pix = NanToZero(@)]
  /\ Advance
  /\ UNCHANGED <<status, tapVars, diskVars, ref, tables, stampRead, shown, calexp0, fnVars, calcVars>>

RECURSIVE Product(_)
Product(s) == IF s = <<>> THEN 1 ELSE Head(s) * Product(Tail(s))

\* variant of generate_injection_catalog: `number` rows in all
generate_number_rows(number, source_type, lens) ==
  [i \in 1..number |->
     [injection_id |-> i - 1, source_type |-> source_type, stamp |-> ""]]

\* generate_injection_catalog: `number` rows for every combination of the
\* parameter values; lens gives the number of values of each parameter
generate_injection_catalog(number, source_type, lens) ==
  [i \in 1..(number * Product(lens)) |->
     [injection_id |-> i - 1, source_type |-> source_type, stamp |-> ""]]

\* the catalogs built at lines 394-405 (mag, n, q, beta, half_light_radius)
\* and 425-432 (mag)
GenCatResult(source_type) ==
  IF source_type = "Sersic"
    THEN generate_injection_catalog(2, "Sersic", <<1, 3, 3, 2, 1>>)
    ELSE generate_injection_catalog(7, "Star", <<5>>)

GenCat ==
  /\ AtKind({"gen_cat"})
  /\ \E t \in Cur.w : tables' = [tables EXCEPT ![t] = GenCatResult(Cur.a)]
  /\ Advance
  /\ UNCHANGED <<status, tapVars, diskVars, heap, ref, stampRead, shown, calexp0, fnVars, calcVars>>

\* the one-row tables built at lines 528-537 and 699-708
StampTable(name) ==
  IF name = "my_injection_catalog_stamp"
    THEN <<[injection_id |-> 9999, source_type |-> "Stamp", stamp |-> stamp_orig]>>
    ELSE <<[injection_id |-> 99999, source_type |-> "Stamp", stamp |-> stamp_rotated]>>

MakeTable ==
  /\ AtKind({"table"})
  /\ tables' = [tables EXCEPT ![Cur.a] = StampTable(Cur.a)]
  /\ Advance
  /\ UNCHANGED <<status, tapVars, diskVars, heap, ref, stampRead, shown, calexp0, fnVars, calcVars>>

\* the tables stacked by the vstack at line l (lines 452, 547, 718)
VStackArgs(l) ==
  CASE l = 452 -> <<"my_injection_catalog_galaxies", "my_injection_catalog_stars">>
    [] l = 547 -> <<"inject_cat", "my_injection_catalog_stamp">>
    [] l = 718 -> <<"inject_cat", "my_injection_catalog_rotated_stamp">>

\* inject_cat = vstack([...])
VStack ==
  /\ AtKind({"vstack"})
  /\ tables' = [tables EXCEPT !["inject_cat"] =
                  tables[VStackArgs(Cur.ln)[1]] \o tables[VStackArgs(Cur.ln)[2]]]
  /\ Advance
  /\ UNCHANGED <<status, tapVars, diskVars, heap, ref, stampRead, shown, calexp0, fnVars, calcVars>>

\* variant of InputExposure: calexp_g itself is passed, not a clone
InputExposureSelf(h, src) == <<h, src>>

\* input_exposure=calexp_g.clone(): the heap with the argument in it, and
\* the object that is passed
InputExposure(h, src) == <<Append(h, h[src]), Len(h) + 1>>

PixAdd(a, b) == IF a = NaN \/ b = NaN THEN NaN ELSE a + b

\* the pixels of an image after the stamps of rows i.. of cat are drawn on it
RECURSIVE DrawStamps(_, _, _)
DrawStamps(pix, cat, i) ==
  IF i > Len(cat) THEN pix
  ELSE IF cat[i].source_type = "Stamp"
    THEN DrawStamps([j \in 1..Len(pix) |-> PixAdd(pix[j], files[cat[i].stamp].pix[j])],
                    cat, i + 1)
    ELSE DrawStamps(pix, cat, i + 1)

StampRows(cat) == {i \in 1..Len(cat) : cat[i].source_type = "Stamp"}

\* injected_output = inject_task.run(injection_catalogs=inject_cat,
\*                                   input_exposure=calexp_g.clone(), ...)
\* The task reads the catalog and the stamp files it names, and edits the
\* input exposure in place; the output exposure is that same object.
Inject ==
  /\ AtKind({"inject"})
  /\ LET cat == tables["inject_cat"]
         arg == InputExposure(heap, ref["calexp_g"])
     IN  IF \A i \in StampRows(cat) : files[cat[i].stamp].there
           THEN /\ heap' = [arg[1] EXCEPT ![arg[2]] =
                              [pix |-> DrawStamps(@.pix, cat, 1), inj |-> @.inj + Len(cat)]]
                /\ ref' = [ref EXCEPT !["injected_output"] = arg[2]]
                /\ stampRead' = {[file |-> cat[i].stamp, pix |-> files[cat[i].stamp].pix] :
                                   i \in StampRows(cat)}
                /\ Advance
                /\ UNCHANGED status
           ELSE /\ Uncaught(Cur.ln)
                /\ UNCHANGED <<heap, ref, stampRead>>
  /\ UNCHANGED <<tapVars, diskVars, tables, shown, calexp0, fnVars, calcVars>>

\* injected_exposure = injected_output.output_exposure, and
\* scienceExposure = injected_exposure: a second name for the same object
Alias ==
  /\ AtKind({"unpack", "alias"})
  /\ \E x \in Cur.w : ref' = [ref EXCEPT ![x] = ref[Cur.a]]
  /\ Advance
  /\ UNCHANGED <<status, tapVars, diskVars, heap, tables, stampRead, shown, calexp0, fnVars, calcVars>>

\* plot_injected_calexp = injected_exposure.clone(): a new object, a copy
Clone ==
  /\ AtKind({"clone"})
  /\ \E x \in Cur.w : NewImage(x, heap[ref[Cur.a]])
  /\ Advance
  /\ UNCHANGED <<status, tapVars, diskVars, tables, stampRead, shown, calexp0, fnVars, calcVars>>

\* display.mtv(<name>.image)
Display ==
  /\ AtKind({"display"})
  /\ shown' = shown \cup {[ln |-> Cur.ln, name |-> Cur.a, img |-> heap[ref[Cur.a]]]}
  /\ Advance
  /\ UNCHANGED <<status, tapVars, diskVars, heap, ref, tables, stampRead, calexp0, fnVars, calcVars>>

Next ==
  \/ ExecStmt
  \/ Raise
  \/ Del
  \/ TryOk
  \/ TryCaught
  \/ Finish
  \/ OpenNotebook
  \/ GetTapService
  \/ AssertService
  \/ SetN
  \/ SearchSend
  \/ SearchReturns
  \/ SearchFails
  \/ SubmitJob
  \/ JobRun
  \/ ServiceJobStep
  \/ JobWait
  \/ AssertPhase
  \/ FetchResult
  \/ JobDelete
  \/ HvSave
  \/ WriteFits
  \/ GetCalexp
  \/ ReadFits
  \/ Rotate
  \/ NanReplace
  \/ GenCat
  \/ MakeTable
  \/ VStack
  \/ Inject
  \/ Alias
  \/ Clone
  \/ Display

Spec == Init /\ [][Next]_vars


(***************************************************************************)
(* The Isolation Forest cell of the anomaly notebook (lines 259-270) and   *)
(* the choice of the object to inspect (lines 503-504), followed on their  *)
(* own from the scores ifo.score_samples returns.                          *)
(***************************************************************************)
\* longest sample
MaxRows == 22
\* number of distinct scores
Levels == 4
\* longest sample of which every table of scores is tried
SmallRows == 3
\* largest step of the generated tables of scores
MaxMul == 3

Min(a, b) == IF a < b THEN a ELSE b

\* anomaly scores are negative; the lower, the more anomalous
ScoreVals == (0 - Levels)..(0 - 1)

\* the tables of scores tried: all the short ones, and longer ones that run
\* through the scores in steps of a from b
ScoreTables ==
  UNION {[1..m -> ScoreVals] : m \in 0..SmallRows}
  \cup {[i \in 1..m |-> 0 - (((i * a + b) % Levels) + 1)] :
          m \in (SmallRows + 1)..MaxRows, a \in 0..MaxMul, b \in 0..(Levels - 1)}

\* orders in which argsort may leave rows of equal score (the default sort
\* of numpy is not stable)
Ties == {"asc", "desc"}

\* row i (from 1) is placed before row j
Before(s, tie, i, j) ==
  \/ s[i] < s[j]
  \/ s[i] = s[j] /\ IF tie = "asc" THEN i < j ELSE i > j

\* np.argsort(s): the row numbers (from 0) in ascending order of s
argsort(s, tie) ==
  [k \in 1..Len(s) |->
     (CHOOSE i \in 1..Len(s) :
        Cardinality({j \in 1..Len(s) : Before(s, tie, j, i)}) = k - 1) - 1]

\* variant of Top20: the slice is taken from the end of the array
Top20FromEnd(a) == SubSeq(a, Len(a) - Min(20, Len(a)) + 1, Len(a))

\* a[:20]
Top20(a) == SubSeq(a, 1, Min(20, Len(a)))

anom_ind == 0

InitIdx ==
  /\ NbStart("anomaly")
  /\ fpc = "scores"
  /\ scores \in ScoreTables
  /\ idx = <<>>
  /\ picked = -1
  /\ diasrc = <<>>
  /\ ind_mm = NoIndMM
  /\ cutouts = <<>>
  /\ CalcIdle

\* ifo.fit(sample); idx = np.argsort(ifo.score_samples(sample))[:20]
\* (fit raises on a sample without rows)
IsolationForestCell ==
  /\ fpc = "scores"
  /\ IF Len(scores) = 0
       THEN fpc' = "failed" /\ idx' = idx
       ELSE /\ \E tie \in Ties : idx' = Top20(argsort(scores, tie))
            /\ fpc' = "idx"
  /\ UNCHANGED <<scores, picked, diasrc, ind_mm, cutouts, nbVars, calcVars>>

\* anom_ind = 0; DiaObjID = df['diaObjectId'][idx[anom_ind]]
PickAnomaly ==
  /\ fpc = "idx"
  /\ picked' = idx[anom_ind + 1]
  /\ fpc' = "picked"
  /\ UNCHANGED <<scores, idx, diasrc, ind_mm, cutouts, nbVars, calcVars>>

NextIdx == IsolationForestCell \/ PickAnomaly

SpecIdx == InitIdx /\ [][NextIdx]_vars

(***************************************************************************)
(* The choice of the diaSources of maximum and minimum r-band flux of the  *)
(* anomaly notebook (lines 513-537 and 607-615), followed on its own from  *)
(* the rows the DiaSource query returns.                                   *)
(***************************************************************************)
\* most rows of diasrc
MaxSrc == 3
\* latest midPointTai
MaxTai == 2
\* largest psFlux
MaxFlux == 2

DiaSrcRows == [midPointTai : 1..MaxTai, filterName : {"r", "g"}, psFlux : 1..MaxFlux]

InitMinMax ==
  /\ NbStart("anomaly")
  /\ fpc = "diasrc"
  /\ scores = <<>>
  /\ idx = <<>>
  /\ picked = -1
  /\ diasrc \in UNION {[1..m -> DiaSrcRows] : m \in 0..MaxSrc}
  /\ ind_mm = NoIndMM
  /\ cutouts = <<>>
  /\ CalcIdle

\* the orders in which sort('midPointTai') may leave table t: rows of equal
\* midPointTai come in any order
SortedByTai(t) ==
  {u \in {[k \in 1..Len(t) |-> t[p[k]]] :
            p \in {q \in [1..Len(t) -> 1..Len(t)] :
                     \A a, b \in 1..Len(t) : a # b => q[a] # q[b]}} :
     \A k \in 1..(Len(u) - 1) : u[k].midPointTai <= u[k + 1].midPointTai}

\* diasrc.sort('midPointTai')
SortDiasrc ==
  /\ fpc = "diasrc"
  /\ diasrc' \in SortedByTai(diasrc)
  /\ fpc' = "sorted"
  /\ UNCHANGED <<scores, idx, picked, ind_mm, cutouts, nbVars, calcVars>>

IsR(row) == row.filterName = "r"

\* diasrc[filt_cond]['psFlux']
RFlux(t) == LET sub == SelectSeq(t, IsR) IN [k \in 1..Len(sub) |-> sub[k].psFlux]

SeqMax(s) == CHOOSE v \in {s[k] : k \in 1..Len(s)} : \A k \in 1..Len(s) : s[k] <= v
SeqMin(s) == CHOOSE v \in {s[k] : k \in 1..Len(s)} : \A k \in 1..Len(s) : s[k] >= v

\* np.where(s == v)[0][0]: the first position (from 0) of v in s
FirstWhere(s, v) ==
  (CHOOSE i \in 1..Len(s) : s[i] = v /\ \A j \in 1..(i - 1) : s[j] # v) - 1

\* the cell that fills ind_mm (np.max of an empty column raises)
ComputeIndMM ==
  /\ fpc = "sorted"
  /\ LET flux == RFlux(diasrc)
     IN  IF flux = <<>>
           THEN fpc' = "failed" /\ ind_mm' = ind_mm
           ELSE /\ ind_mm' = [ind_max |-> FirstWhere(flux, SeqMax(flux)),
                              ind_min |-> FirstWhere(flux, SeqMin(flux))]
                /\ fpc' = "ind_mm"
  /\ UNCHANGED <<scores, idx, picked, diasrc, cutouts, nbVars, calcVars>>

\* np.where(t['filterName'] == 'r')[0]: the positions (from 0) of the r rows
WhereR(t) == SelectSeq([i \in 1..Len(t) |-> i - 1], LAMBDA i : IsR(t[i + 1]))

\* variant of RowOf: the position in the r-band subset is used as it is
RowOfSubset(t, k) == k

\* np.where(t['filterName'] == 'r')[0][k]
RowOf(t, k) == WhereR(t)[k + 1]

\* the keys of ind_mm, in the order the loop visits them
Keys == <<"ind_max", "ind_min">>

\* one pass of "for im_ind in ind_mm": the row the cutouts are made for
CutoutPass ==
  /\ fpc = "ind_mm"
  /\ LET im_ind == Keys[Len(cutouts) + 1]
         ind == RowOf(diasrc, ind_mm[im_ind])
     IN  cutouts' = Append(cutouts, [im_ind |-> im_ind, ind |-> ind,
                                     flux |-> diasrc[ind + 1].psFlux,
                                     filt |-> diasrc[ind + 1].filterName,
                                     mjd |-> diasrc[ind + 1].midPointTai])
  /\ fpc' = IF Len(cutouts) + 1 = Len(Keys) THEN "done" ELSE fpc
  /\ UNCHANGED <<scores, idx, picked, diasrc, ind_mm, nbVars, calcVars>>

NextMinMax == SortDiasrc \/ ComputeIndMM \/ CutoutPass

SpecMinMax == InitMinMax /\ [][NextMinMax]_vars

(***************************************************************************)
(* ccdVisitId: built from visit and detector in the Butler notebook        *)
(* (lines 535-537), split into visit and detector in the anomaly notebook  *)
(* (lines 613-623).  Strings are sequences of characters.                  *)
(***************************************************************************)
\* largest small visit number tried
MaxVisit == 11
\* largest detector number tried
MaxDetector == 1000

DigitChars == <<"0", "1", "2", "3", "4", "5", "6", "7", "8", "9">>

RECURSIVE str(_)
\* str(v) of an integer v >= 0
str(v) == IF v < 10 THEN <<DigitChars[v + 1]>>
          ELSE str(v \div 10) \o <<DigitChars[(v % 10) + 1]>>

DigitValue(c) == (CHOOSE d \in 1..10 : DigitChars[d] = c) - 1

RECURSIVE int(_)
\* int(s) of a string of digits; the empty string is not a number ("none")
int(s) == IF s = <<>> THEN "none"
          ELSE IF Len(s) = 1 THEN DigitValue(s[1])
          ELSE int(SubSeq(s, 1, Len(s) - 1)) * 10 + DigitValue(s[Len(s)])

\* variant of rjust: the string is left as it is
rjustNone(s, width, fill) == s

\* s.rjust(width, fill): s padded on the left up to width, never cut
rjust(s, width, fill) ==
  IF Len(s) >= width THEN s ELSE [k \in 1..(width - Len(s)) |-> fill] \o s

\* s[:-3]
AllButLast3(s) == SubSeq(s, 1, Len(s) - 3)

\* s[-3:]
Last3(s) == SubSeq(s, IF Len(s) > 3 THEN Len(s) - 2 ELSE 1, Len(s))

\* the visits tried: the small ones and the visit of the Butler notebook
Visits == 0..MaxVisit \cup {192350}

InitCcd ==
  /\ NbStart("butler")
  /\ FnIdle
  /\ cpc = "dataId"
  /\ dataId \in [visit : Visits, detector : 0..MaxDetector]
  /\ ccd_visit_id = -1
  /\ split = NoSplit
  /\ VizIdle
  /\ SelIdle
  /\ StatIdle

\* det_string = str(dataId['detector'])
\* ccd_visit_id = np.longlong(str(dataId['visit']) + det_string.rjust(3, '0'))
BuildCcdVisitId ==
  /\ cpc = "dataId"
  /\ LET det_string == str(dataId.detector)
     IN  ccd_visit_id' = int(str(dataId.visit) \o rjust(det_string, 3, "0"))
  /\ cpc' = "built"
  /\ UNCHANGED <<dataId, split, nbVars, fnVars, vizVars, selVars, statVars>>

\* visit = int(str(ccdvisitid)[:-3]); detector = int(str(ccdvisitid)[-3:])
\* (int of an empty string raises)
SplitCcdVisitId ==
  /\ cpc = "built"
  /\ LET s == str(ccd_visit_id)
     IN  IF AllButLast3(s) = <<>>
           THEN cpc' = "failed" /\ split' = split
           ELSE /\ split' = [visit |-> int(AllButLast3(s)), detector |-> int(Last3(s))]
                /\ cpc' = "split"
  /\ UNCHANGED <<dataId, ccd_visit_id, nbVars, fnVars, vizVars, selVars, statVars>>

NextCcd == BuildCcdVisitId \/ SplitCcdVisitId

SpecCcd == InitCcd /\ [][NextCcd]_vars

(***************************************************************************)
(* The tapped image of the visualization notebook: the calexp array is     *)
(* scaled (lines 481-482), flipped (500), shown as an hv.Image (542), a    *)
(* position is tapped (813-816) and the values there are printed           *)
(* (834-836).  A pixel carries the row and column of calexp.image.array    *)
(* it comes from; positions are counted in half pixels.                    *)
(***************************************************************************)
\* most rows of the calexp
MaxH == 3
\* most columns of the calexp
MaxW == 2

Height(a) == Len(a)
Width(a) == Len(a[1])

InitTap ==
  /\ NbStart("viz")
  /\ FnIdle
  /\ CcdIdle
  /\ tpc = "calexp"
  /\ \E h \in 1..MaxH, w \in 1..MaxW :
       image = [r \in 1..h |-> [c \in 1..w |-> [row |-> r - 1, col |-> c - 1, scaled |-> FALSE]]]
  /\ scaledImage = <<>>
  /\ img = NoImg
  /\ posxy = NoPos
  /\ printed = NoPrint
  /\ SelIdle
  /\ StatIdle

\* transform = AsinhStretch() + ZScaleInterval(): applied pixel by pixel
transform(a) == [r \in 1..Height(a) |-> [c \in 1..Width(a) |-> [a[r][c] EXCEPT !.scaled = TRUE]]]

\* scaledImage = transform(calexp.image.array)
ScaleImage ==
  /\ tpc = "calexp"
  /\ scaledImage' = transform(image)
  /\ tpc' = "scaled"
  /\ UNCHANGED <<image, img, posxy, printed, nbVars, fnVars, ccdVars, selVars, statVars>>

\* np.flipud(a): the rows in reverse order
flipud(a) == [r \in 1..Height(a) |-> a[Height(a) + 1 - r]]

\* scaledImage = np.flipud(scaledImage)
FlipImage ==
  /\ tpc = "scaled"
  /\ scaledImage' = flipud(scaledImage)
  /\ tpc' = "flipped"
  /\ UNCHANGED <<image, img, posxy, printed, nbVars, fnVars, ccdVars, selVars, statVars>>

\* bounds_img = (0, 0, calexp.getDimensions()[0], calexp.getDimensions()[1])
\* img = hv.Image(scaledImage, bounds=bounds_img, kdims=['x', 'y'])
MakeImage ==
  /\ tpc = "flipped"
  /\ img' = [data |-> scaledImage, bounds |-> <<0, 0, Width(image), Height(image)>>]
  /\ tpc' = "img"
  /\ UNCHANGED <<image, scaledImage, posxy, printed, nbVars, fnVars, ccdVars, selVars, statVars>>

\* posxy = hv.streams.Tap(source=img, x=0.5 * width, y=0.5 * height)
TapStream ==
  /\ tpc = "img"
  /\ posxy' = [x |-> Width(image), y |-> Height(image)]
  /\ tpc' = "tap"
  /\ UNCHANGED <<image, scaledImage, img, printed, nbVars, fnVars, ccdVars, selVars, statVars>>

\* the user taps a position inside the image
Tap ==
  /\ tpc = "tap"
  /\ \E x \in 0..(2 * Width(image) - 1), y \in 0..(2 * Height(image) - 1) :
       posxy' = [x |-> x, y |-> y]
  /\ UNCHANGED <<tpc, image, scaledImage, img, printed, nbVars, fnVars, ccdVars, selVars, statVars>>

\* int(v) of a position v >= 0 counted in half pixels
Trunc(v) == v \div 2

\* a[i, j] of numpy: a negative row index counts from the last row
At(a, i, j) == IF i < 0 THEN a[Height(a) + i + 1][j + 1] ELSE a[i + 1][j + 1]

\* the pixel an hv.Image with bounds (0, 0, w, h) draws at (x, y): the first
\* row of its data is the top row of the picture
Drawn(im, x, y) == im.data[Height(im.data) - Trunc(y)][Trunc(x) + 1]

\* print(... scaledImage[-int(posxy.y), int(posxy.x)],
\*           calexp.image.array[-int(posxy.y), int(posxy.x)])
PrintValue ==
  /\ tpc = "tap"
  /\ printed' = [scaled |-> At(scaledImage, 0 - Trunc(posxy.y), Trunc(posxy.x)),
                 raw |-> At(image, 0 - Trunc(posxy.y), Trunc(posxy.x))]
  /\ tpc' = "printed"
  /\ UNCHANGED <<image, scaledImage, img, posxy, nbVars, fnVars, ccdVars, selVars, statVars>>

NextTap == ScaleImage \/ FlipImage \/ MakeImage \/ TapStream \/ Tap \/ PrintValue

SpecTap == InitTap /\ [][NextTap]_vars

(***************************************************************************)
(* The selection cells of the weak-lensing notebook: the signal-to-noise   *)
(* cut (lines 326-330), the ellipticity cut (353-355) and the printed      *)
(* fraction (356).                                                         *)
(***************************************************************************)
\* most rows of data
MaxData == 2
\* largest flux error
MaxErr == 2

\* the rows tried: fluxes around five times the flux error, ellipticity
\* components that give magnitudes 0, 1, 2 and sqrt(5), or are NaN
DataRows ==
  [r_cModelFlux : {10, 11}, r_cModelFluxErr : 1..MaxErr,
   g_cModelFlux : {10, 11}, g_cModelFluxErr : 1..MaxErr,
   r_hsmShapeRegauss_e1 : {0, 2, NaN}, r_hsmShapeRegauss_e2 : {0, 1}]

InitSel ==
  /\ NbStart("wl")
  /\ FnIdle
  /\ CcdIdle
  /\ VizIdle
  /\ epc = "data"
  /\ data \in UNION {[1..m -> DataRows] : m \in 1..MaxData}
  /\ sel = <<>>
  /\ fraction = NoFraction
  /\ StatIdle

\* flux / err > 5. for err > 0
SnrAbove5(flux, err) == flux > 5 * err

\* r_SNR = ...; g_SNR = ...; sel = r_SNR > 5.; sel &= g_SNR > 5.
SnrCut ==
  /\ epc = "data"
  /\ sel' = [i \in 1..Len(data) |->
               /\ SnrAbove5(data[i].r_cModelFlux, data[i].r_cModelFluxErr)
               /\ SnrAbove5(data[i].g_cModelFlux, data[i].g_cModelFluxErr)]
  /\ epc' = "snr"
  /\ UNCHANGED <<data, fraction, nbVars, fnVars, ccdVars, vizVars, statVars>>

\* (e1**2 + e2**2)**0.5 < 2.  (a comparison with NaN is false)
Below2(e1, e2) == e1 # NaN /\ e2 # NaN /\ e1 * e1 + e2 * e2 < 2 * 2

\* s &= cut
AndSel(s, cut) == s /\ cut

\* e1 = ...; e2 = ...; sel &= (e1**2 + e2**2)**0.5 < 2.
EllipticityCut ==
  /\ epc = "snr"
  /\ sel' = [i \in 1..Len(data) |->
               AndSel(sel[i], Below2(data[i].r_hsmShapeRegauss_e1, data[i].r_hsmShapeRegauss_e2))]
  /\ epc' = "cut"
  /\ UNCHANGED <<data, fraction, nbVars, fnVars, ccdVars, vizVars, statVars>>

\* print("Fraction of large ellipticity: ", np.sum(~sel)/len(data))
PrintFraction ==
  /\ epc = "cut"
  /\ fraction' = [num |-> Cardinality({i \in 1..Len(sel) : ~sel[i]}), den |-> Len(data)]
  /\ epc' = "printed"
  /\ UNCHANGED <<data, sel, nbVars, fnVars, ccdVars, vizVars, statVars>>

NextSel == SnrCut \/ EllipticityCut \/ PrintFraction

SpecSel == InitSel /\ [][NextSel]_vars

(***************************************************************************)
(* get_stat of the weak-lensing notebook (lines 135-168).  Numbers that    *)
(* need not be whole are pairs <<numerator, denominator>>.                 *)
(***************************************************************************)
\* most values in the data given to get_stat
MaxN == 3
\* largest value in the data
MaxVal == 2

RatEq(a, b) == a[1] * b[2] = b[1] * a[2]
RatLeq(a, b) == a[1] * b[2] <= b[1] * a[2]
RatSub(a, b) == <<a[1] * b[2] - b[1] * a[2], a[2] * b[2]>>

RECURSIVE SeqSum(_)
SeqSum(s) == IF s = <<>> THEN 0 ELSE s[1] + SeqSum(Tail(s))

\* np.mean(d)
mean(d) == <<SeqSum(d), Len(d)>>

\* the values of d in ascending order
Ascending(d) ==
  CHOOSE u \in [1..Len(d) -> {d[k] : k \in 1..Len(d)}] :
    /\ \A k \in 1..(Len(d) - 1) : u[k] <= u[k + 1]
    /\ \A v \in {d[k] : k \in 1..Len(d)} :
         Cardinality({k \in 1..Len(d) : u[k] = v}) = Cardinality({k \in 1..Len(d) : d[k] = v})

\* np.median(d)
median(d) ==
  LET u == Ascending(d)
      h == Len(d) \div 2
  IN  IF Len(d) % 2 = 1 THEN Whole(u[h + 1]) ELSE <<u[h] + u[h + 1], 2>>

Statistics == {"np.mean", "np.median"}

\* statistic(d) for the statistic named f
Apply(f, d) == IF f = "np.mean" THEN mean(d) ELSE median(d)

\* the data tried: bootstrap rejects a sample of fewer than two values and
\* gives no interval for a sample whose values are all equal
Samples ==
  {d \in UNION {[1..m -> 0..MaxVal] : m \in 2..MaxN} : \E k \in 1..Len(d) : d[k] # d[1]}

InitStat ==
  /\ NbStart("wl")
  /\ FnIdle
  /\ CcdIdle
  /\ VizIdle
  /\ SelIdle
  /\ gpc = "called"
  /\ args \in [data : Samples, statistic : Statistics, confidence_level : {682, 950}]
  /\ res = NoRes
  /\ ret = NoRet

\* the values the statistic f takes on the resamples of d (as many values,
\* drawn from d with replacement)
BootstrapDistribution(f, d) ==
  {Apply(f, [k \in 1..Len(d) |-> d[p[k]]]) : p \in [1..Len(d) -> 1..Len(d)]}

\* rng = np.random.default_rng()
\* res = bootstrap((data,), statistic=statistic,
\*                 confidence_level=confidence_level, random_state=rng)
\* (the interval lies between two values of the bootstrap distribution,
\* which ones depends on the random resamples)
Bootstrap ==
  /\ gpc = "called"
  /\ \E lo, hi \in BootstrapDistribution(args.statistic, args.data) :
       /\ RatLeq(lo, hi)
       /\ res' = [low |-> lo, high |-> hi]
  /\ gpc' = "bootstrapped"
  /\ UNCHANGED <<args, ret, nbVars, fnVars, ccdVars, vizVars, selVars>>

\* stat = np.mean(data)
\* lerr = stat - res.confidence_interval[0]
\* herr = res.confidence_interval[1] - stat
\* return stat, lerr, herr
ReturnStat ==
  /\ gpc = "bootstrapped"
  /\ LET stat == mean(args.data)
     IN  ret' = [stat |-> stat, lerr |-> RatSub(stat, res.low), herr |-> RatSub(res.high, stat)]
  /\ gpc' = "returned"
  /\ UNCHANGED <<args, res, nbVars, fnVars, ccdVars, vizVars, selVars>>

NextStat == Bootstrap \/ ReturnStat

SpecStat == InitStat /\ [][NextStat]_vars

TypeOK ==
  /\ nb \in Notebooks
  /\ pc \in 1..(Len(Prog(nb)) + 1)
  /\ status \in {"running", "blocked", "failed", "done"}
  /\ service \in {"unset", "null", "ok"}
  /\ written \subseteq FileNames

(***************************************************************************)
(* Properties.                                                             *)
(***************************************************************************)
\* the statement at which the kernel stands, when there is one
AtStmt == pc <= Len(Prog(nb))

\* the run has stopped at the statement that raised
StoppedAtRaise == status = "failed" /\ AtStmt /\ RaiseLine(Cur) = raisedAt

\* the position in notebook b of its first statement of kind k
IndexOf(b, k) == CHOOSE i \in 1..Len(Prog(b)) :
                   /\ Prog(b)[i].k = k
                   /\ \A j \in 1..(i - 1) : Prog(b)[j].k # k

\* C1 as stated: no failure is caught; whenever something has raised, the run
\* has stopped at the statement that raised and nothing after it has run.
C1_NothingCaught == raisedAt # 0 => StoppedAtRaise

\* C1 amended: the only failure that is caught is a failure of the body of
\* the try statement of the inject notebook (line 937), after which the run
\* goes on; any other raise stops the run at the statement that raised.
C1_OnlyTryCaught ==
  raisedAt # 0 => \/ StoppedAtRaise
                  \/ nb = "inject" /\ raisedAt = 937 /\ pc > IndexOf("inject", "try")

\* the body of the try has failed and the notebook has run to its end
C1_Witness == nb = "inject" /\ raisedAt = 937 /\ status = "done"

\* C2: in the weak-lensing notebook job.wait returns only in phase COMPLETED
\* or ERROR, a job in phase ERROR never gets past the assertion, and
\* fetch_result and delete are executed only for a COMPLETED job.
C2_FetchOnlyCompleted ==
  /\ (nb = "wl" /\ status # "failed" /\ pc > IndexOf("wl", "job_wait"))
        => job.phase \in {"COMPLETED", "ERROR"}
  /\ job.phase = "ERROR" => pc <= IndexOf("wl", "assert_phase")
  /\ (job.fetched \/ job.deleted) => job.phase = "COMPLETED"

\* the job ended in ERROR and the run has stopped at the assertion
C2_Witness ==
  /\ job.phase = "ERROR" /\ status = "failed" /\ raisedAt = 252
  /\ ~job.fetched /\ ~job.deleted

\* a query is in flight: sent to the service and neither completed nor failed
InFlight == status = "blocked" \/ job.phase \in {"QUEUED", "EXECUTING"}

\* C3 as stated: every query is a blocking call; while a query is in flight
\* the kernel is held in the statement that sent it.
C3_AllBlocking == InFlight => status = "blocked"

\* C3 amended: a query sent with service.search is a blocking call (the
\* kernel is held in the search statement until the service has answered);
\* the query of the weak-lensing notebook is an asynchronous job:
\* submit_job and job.run return before the job has finished, and the only
\* statement that runs while the job is queued or executing is job.wait.
C3_BlockingOrWaited ==
  /\ status = "blocked" => AtStmt /\ Cur.k \in {"search", "search_loop"}
  /\ (status = "running" /\ job.phase \in {"QUEUED", "EXECUTING"})
        => AtStmt /\ Cur.k = "job_wait"

\* job.run has returned and job.wait stands while the job is executing
C3_Witness == status = "running" /\ job.phase = "EXECUTING" /\ AtStmt /\ Cur.k = "job_wait"

\* kinds of statement that send a query
QueryKinds == {"search", "search_loop", "submit_job"}

\* C4 as stated: in every notebook that gets a TAP handle, the handle has
\* been asserted non-null when a query is about to be sent, and no query is
\* sent on a null handle.
C4_AssertedEverywhere ==
  /\ (Running /\ Cur.k \in QueryKinds) => asserted
  /\ service = "null" => nsent = 0

\* the last statement a run with a null handle can reach
NullStop(b) ==
  IF b = "intro" THEN IndexOf(b, "search") ELSE IndexOf(b, "assert_service")

\* C4 amended: the anomaly and weak-lensing notebooks assert the handle
\* before the first query, so with a null handle their run stops at the
\* assertion; the introduction notebook does not assert it, and with a null
\* handle its run stops at the first service.search (line 581), which raises
\* before anything is sent; in no notebook is a query sent on a null handle.
C4_NoQueryOnNull ==
  /\ (Running /\ Cur.k \in QueryKinds /\ nb # "intro") => asserted
  /\ service = "null" => nsent = 0 /\ pc <= NullStop(nb)
  /\ (service = "null" /\ status = "failed" /\ pc = NullStop(nb))
        => raisedAt = Prog(nb)[NullStop(nb)].ln

\* the introduction notebook has stopped at its first search on a null handle
C4_Witness ==
  nb = "intro" /\ service = "null" /\ status = "failed" /\ raisedAt = 581 /\ nsent = 0

\* the disk before any notebook has run
InitialFile(f) == IF f = stamp_orig THEN [there |-> TRUE, pix |-> StampPix] ELSE NoFile

\* C5: the only files created or modified are nb06a_plot1.html in the home
\* directory and stamp_rotated.fits in /home/<user>/; every other file is as
\* it was, and no file is deleted.
C5_OnlyTwoFiles ==
  /\ written \subseteq {outputFile, stamp_rotated}
  /\ \A f \in FileNames \ {outputFile, stamp_rotated} : files[f] = InitialFile(f)
  /\ \A f \in written : files[f].there

\* both files have been written
C5_Witness == written = {outputFile, stamp_rotated}

\* the data products the Butler notebook retrieves
Products == {"calexp", "diffexp", "coadd", "src", "dia_src", "obj", "dia_obj",
             "dia_forced_src"}

\* C6: in the Butler notebook at most one retrieved data product is bound at
\* any point, none is bound when the next one is fetched, and none is bound
\* at the end.
C6_OneProduct ==
  nb = "butler" =>
    /\ Cardinality(bound \cap Products) <= 1
    /\ (Running /\ Cur.k = "butler_get" /\ Cur.w \cap Products # {})
          => bound \cap Products = {}
    /\ status = "done" => bound \cap Products = {}

\* the last product is bound, the seven before it having come and gone
C6_Witness == nb = "butler" /\ bound \cap Products = {"dia_forced_src"}

\* C7: the injection edits its input in place, but the input is a clone:
\* calexp_g holds the pixels butler.get returned, before and after the
\* injection, and every display of calexp_g.image shows them, with no
\* injected source.
C7_CalexpUntouched ==
  /\ ref["calexp_g"] # 0 => heap[ref["calexp_g"]] = calexp0
  /\ \A s \in shown : s.name = "calexp_g" => s.img = calexp0 /\ s.img.inj = 0
  /\ ref["injected_output"] # 0 =>
        /\ ref["injected_output"] # ref["calexp_g"]
        /\ heap[ref["injected_output"]].inj = Len(tables["inject_cat"])

\* calexp_g has been displayed after sources were injected into its clone
C7_Witness ==
  /\ \E s \in shown : s.name = "calexp_g" /\ s.ln = 976
  /\ ref["injected_output"] # 0 /\ heap[ref["injected_output"]].inj > 0

NoNaN(pix) == \A i \in 1..Len(pix) : pix[i] # NaN

\* the row that names the rotated stamp is in catalog cat
HasRotatedRow(cat) == \E i \in 1..Len(cat) : cat[i].stamp = stamp_rotated

\* C8: stamp_rotated.fits is written after the NaN pixels were replaced, the
\* catalog row that names it is appended after the file was written, and the
\* injection reads the catalog after the row was appended; the file the
\* injection reads holds no NaN.
C8_StampOrder ==
  /\ files[stamp_rotated].there => NoNaN(files[stamp_rotated].pix)
  /\ HasRotatedRow(tables["inject_cat"]) =>
        /\ stamp_rotated \in written
        /\ files[stamp_rotated].pix = heap[ref["stamp_img_rotated"]].pix
  /\ ref["injected_output"] # 0 =>
        /\ HasRotatedRow(tables["inject_cat"])
        /\ [file |-> stamp_rotated, pix |-> files[stamp_rotated].pix] \in stampRead
        /\ \A s \in stampRead : NoNaN(s.pix)

\* the rotated stamp was displayed with a NaN pixel, and the injection has
\* read the file written from it
C8_Witness ==
  /\ \E s \in shown : s.name = "stamp_img_rotated" /\ ~NoNaN(s.img.pix)
  /\ \E s \in stampRead : s.file = stamp_rotated

\* the score of row r (rows are numbered from 0)
Score(r) == scores[r + 1]
Rows == 0..(Len(scores) - 1)

RIdx == {i \in 0..(Len(diasrc) - 1) : IsR(diasrc[i + 1])}

\* C10: the row used for the 'maximum' cutouts is an r-band row of diasrc
\* whose psFlux is the largest of the r-band rows, the row used for the
\* 'minimum' cutouts one whose psFlux is the smallest; the index found in
\* the r-band subset is mapped back to the same row of the time-sorted
\* table, and of rows of equal psFlux the earliest in midPointTai order is
\* used.
C10_MaxMinRows ==
  /\ fpc \in {"sorted", "ind_mm", "done"} =>
        \A k \in 1..(Len(diasrc) - 1) : diasrc[k].midPointTai <= diasrc[k + 1].midPointTai
  /\ \A c \in 1..Len(cutouts) :
       LET cu == cutouts[c]
           row == diasrc[cu.ind + 1]
       IN  /\ cu.im_ind = Keys[c]
           /\ cu.ind \in RIdx
           /\ cu.filt = "r" /\ cu.flux = row.psFlux /\ cu.mjd = row.midPointTai
           /\ cu.im_ind = "ind_max" => \A i \in RIdx : diasrc[i + 1].psFlux <= row.psFlux
           /\ cu.im_ind = "ind_min" => \A i \in RIdx : diasrc[i + 1].psFlux >= row.psFlux
           /\ Cardinality({i \in RIdx : i < cu.ind}) = ind_mm[cu.im_ind]
           /\ \A i \in RIdx : diasrc[i + 1].psFlux = row.psFlux
                 => cu.ind <= i /\ row.midPointTai <= diasrc[i + 1].midPointTai

\* both cutout rows were found in a table whose r-band rows come after a row
\* of another band, with two r-band rows of maximum flux
C10_Witness ==
  /\ fpc = "done" /\ Len(cutouts) = 2
  /\ cutouts[1].ind # ind_mm["ind_max"]
  /\ \E i \in RIdx : i # cutouts[1].ind /\ diasrc[i + 1].psFlux = cutouts[1].flux

\* C11: for every visit >= 1 and detector in 0..999 the value built in the
\* Butler notebook from the two strings equals visit*1000 + detector, and
\* the split of the anomaly notebook gives back exactly (visit, detector).
C11_CcdVisitRoundTrip ==
  (cpc # "idle" /\ dataId.visit >= 1 /\ dataId.detector \in 0..999) =>
    /\ cpc # "failed"
    /\ cpc \in {"built", "split"} => ccd_visit_id = dataId.visit * 1000 + dataId.detector
    /\ cpc = "split" => split = dataId

\* the dataId of the Butler notebook, whose detector needs two zeros of
\* padding, was built and split
C11_Witness ==
  /\ cpc = "split"
  /\ dataId = [visit |-> 192350, detector |-> 5]
  /\ ccd_visit_id = 192350005

\* C12 (as stated): once the values at the tapped position are printed, the
\* scaled value and the raw value are those of one and the same calexp
\* pixel, the pixel the displayed image draws at that position.
C12_SamePixel ==
  tpc = "printed" =>
    /\ printed.scaled.row = printed.raw.row
    /\ printed.scaled.col = printed.raw.col
    /\ printed.scaled.row = Drawn(img, posxy.x, posxy.y).row
    /\ printed.scaled.col = Drawn(img, posxy.x, posxy.y).col

\* the rows of data whose ellipticity magnitude is not below 2
LargeEllipticity ==
  {i \in 1..Len(data) : ~Below2(data[i].r_hsmShapeRegauss_e1, data[i].r_hsmShapeRegauss_e2)}

\* C13 (as stated): the number printed as 'Fraction of large ellipticity' is
\* the fraction of the rows of data whose ellipticity magnitude is not
\* below 2.
C13_FractionLargeEllipticity ==
  epc = "printed" =>
    fraction = [num |-> Cardinality(LargeEllipticity), den |-> Len(data)]

\* C14 (as stated): get_stat returns as stat the value of the given
\* statistic applied to data, with lerr = stat minus the lower bound of the
\* bootstrap confidence interval and herr = the upper bound minus stat.
C14_StatIsStatistic ==
  gpc = "returned" =>
    /\ RatEq(ret.stat, Apply(args.statistic, args.data))
    /\ RatEq(ret.lerr, RatSub(ret.stat, res.low))
    /\ RatEq(ret.herr, RatSub(res.high, ret.stat))

\* the position in notebook b of the statement that starts at line l
StmtAt(b, l) == CHOOSE i \in 1..Len(Prog(b)) : Prog(b)[i].ln = l

\* the rows of catalog cat that have source type t
RowsOfType(cat, t) == {i \in 1..Len(cat) : cat[i].source_type = t}

\* C15: the galaxy catalog holds 2*1*3*3*2*1 = 36 rows and the star catalog
\* 7*5 = 35; in a run of the source-injection notebook inject_cat holds 71
\* rows after the first vstack, 72 after the second and 73 after the third,
\* and of these 73 exactly two are 'Stamp' rows, with injection_id 9999 and
\* 99999.
C15_CatalogRows ==
  nb = "inject" =>
    LET cat == tables["inject_cat"]
        after(l) == pc > StmtAt("inject", l)
    IN  /\ Len(tables["my_injection_catalog_galaxies"]) \in {0, 36}
        /\ Len(tables["my_injection_catalog_stars"]) \in {0, 35}
        /\ ~after(452) => Len(cat) = 0
        /\ after(452) /\ ~after(547) => Len(cat) = 71 /\ RowsOfType(cat, "Stamp") = {}
        /\ after(547) /\ ~after(718) => Len(cat) = 72
        /\ after(718) =>
             /\ Len(cat) = 73
             /\ Cardinality(RowsOfType(cat, "Sersic")) = 36
             /\ Cardinality(RowsOfType(cat, "Star")) = 35
             /\ Cardinality(RowsOfType(cat, "Stamp")) = 2
             /\ {cat[i].injection_id : i \in RowsOfType(cat, "Stamp")} = {9999, 99999}

\* the source-injection notebook has run to its end with the full catalog
C15_Witness ==
  /\ nb = "inject" /\ status = "done"
  /\ Len(tables["inject_cat"]) = 73
  /\ heap[ref["injected_output"]].inj = 73

\* the names removed by the del statements executed so far in this run
DeletedBefore == UNION {Prog(nb)[j].d : j \in 1..(pc - 1)}

\* C16: in a run of any notebook from top to bottom, the statement about to
\* be executed reads no name that a del has removed unless the name was
\* bound again since, and a del removes only names that are bound.
C16_NoReadAfterDel ==
  (status \in {"running", "blocked"} /\ AtStmt) =>
    /\ Cur.r \cap DeletedBefore \subseteq bound
    /\ Cur.k = "del" => Cur.d \subseteq bound

\* a statement reads a name that was removed by del and bound again
C16_Witness ==
  /\ status = "running" /\ AtStmt
  /\ Cur.r \cap DeletedBefore # {}
  /\ Cur.r \cap DeletedBefore \subseteq bound

====
